---- MODULE Spec2Model ----
(***************************************************************************)
(* Model of envsync's safe synchronisation engine                          *)
(* (src/envsync/core/safe_sync.py and the collaborators it drives).        *)
(*                                                                         *)
(* An environment is a directory tree (a map from paths to contents, 0     *)
(* meaning "no such file"), optionally a git working tree whose HEAD tree  *)
(* is `head`.  The checkpoint directory holds backup directories and       *)
(* metadata records, both named by environment and timestamp.  A call of   *)
(* SafeSyncService.sync is followed statement by statement (pc), each      *)
(* external command (rsync, git) choosing its outcome nondeterministically.*)
(***************************************************************************)
EXTENDS Integers, Sequences, FiniteSets, TLC

\* ------------------------------------------------------------------ bounds
MaxTime == 1       \* seconds the clock may advance (timestamps 0..MaxTime)
MaxCalls == 2      \* checkpoint operations in one behaviour of CheckpointSpec
MaxEdits == 1      \* operator edits of environment files in one behaviour

\* ------------------------------------------------------- the configuration
\* config.envs: the configured environments; "ghost" is a name that is not
\* configured.  "dev-2" is reached over SSH, "dev" is local.
Envs == {"dev", "dev-2"}
EnvNames == Envs \cup {"ghost"}

\* EnvContext.is_remote
is_remote(e) == e = "dev-2"

\* The environment name split at "-" (used to match file-name patterns).
Tokens(e) ==
    CASE e = "dev" -> <<"dev">>
      [] e = "dev-2" -> <<"dev", "2">>
      [] OTHER -> <<e>>

\* ------------------------------------------------------------------- trees
Paths == {"app.py", "app.pyc", "build/out"}
Contents == 0..1
Trees == [Paths -> Contents]
EmptyTree == [p \in Paths |-> 0]

\* Optional values: None is the empty tuple, Some(x) the one-element tuple.
None == <<>>
Some(x) == <<x>>

\* RSYNC_EXCLUDES: "app.pyc" matches --exclude=*.pyc, the other paths match
\* no standard pattern.
RSYNC_EXCLUDES(p) == p = "app.pyc"

\* Directories the scanner may report as non-code, and the paths below them.
NonCodeDirs == {"build"}
Under(p, d) == d = "build" /\ p = "build/out"

\* The paths a transfer with the given extra excludes does not touch.
Excluded(p, extra) == RSYNC_EXCLUDES(p) \/ \E d \in extra : Under(p, d)

\* Exit classes of the transfer utility: 0, 23 (partial), anything else.
RsyncExits == {"ok", "partial", "fatal"}

\* Mutant: the return code of the transfer is not looked at.
IsFatalUnchecked(exit) == exit \notin RsyncExits

\* proc.returncode not in (0, 23)
IsFatal(exit) == exit \notin {"ok", "partial"}

\* The paths an rsync run got to before it ended: all of them on exit 0.
Reached(exit) == IF exit = "ok" THEN {Paths} ELSE SUBSET Paths

\* EnvContext.rsync_spec gives "[user@]host:path/" for a remote environment,
\* and rsync refuses a command whose source and destination are both remote
\* ("The source and destination cannot both be remote", exit 1) before it
\* touches a file.
BothRemote(src, dst) == is_remote(src) /\ is_remote(dst)

\* The ways `rsync ... src.rsync_spec() dst.rsync_spec()` can end: the exit
\* class and the paths it got to.
RsyncRuns(src, dst) ==
    IF BothRemote(src, dst) THEN {<<"fatal", {}>>}
    ELSE UNION {{<<exit, S>> : S \in Reached(exit)} : exit \in RsyncExits}

\* rsync -a [--delete] src/ dst/ having handled the paths in S: a handled,
\* not excluded path is made equal to the source; with delete=FALSE a file
\* missing in the source is left in the destination.
RsyncApply(src, dst, S, extra, delete) ==
    [p \in Paths |->
        IF p \in S /\ ~Excluded(p, extra) /\ (delete \/ src[p] # 0)
        THEN src[p] ELSE dst[p]]

\* Itemized lines starting with ">" or "<": files created or updated.
CountSynced(src, dst, S, extra) ==
    Cardinality({p \in S : ~Excluded(p, extra) /\ src[p] # 0 /\ src[p] # dst[p]})

\* Itemized lines starting with "*deleting".
CountDeleted(src, dst, S, extra) ==
    Cardinality({p \in S : ~Excluded(p, extra) /\ src[p] = 0 /\ dst[p] # 0})

\* ------------------------------------------------------- scanner: the data
\* PROJECT_MARKERS: the project kinds ("python" comes before "node").
Kinds == {"python", "node"}

\* The marker file found at the root of each environment (requirements.txt
\* in dev, package.json in dev-2): the root itself is the one component.
RootKind(e) == IF e = "dev" THEN "python" ELSE "node"

\* ProjectStructure, with the component kinds in place of the components.
ProjectStructure(e, types, code, noncode) ==
    [env_name |-> e, types |-> types, all_code_dirs |-> code,
     all_non_code_dirs |-> noncode]

\* ProjectStructure(root_path, env_name) as scan creates it, before
\* _scan_directory fills it.
EmptyStructure(e) == ProjectStructure(e, {}, {}, {})

\* The cache entry is valid for one hour.
CACHE_TTL == 3600
HalfHour == CACHE_TTL \div 2

\* The ages (seconds since the cache file was written) the model tells
\* apart; an older file is as old as the oldest of them.
Ages == {0, HalfHour, CACHE_TTL, CACHE_TTL + HalfHour}

\* The cache file of an environment: missing, holding a structure, or
\* unreadable as JSON; "unknown" stands for whatever earlier runs left.
NoEntry == [state |-> "none", age |-> 0, structure |-> EmptyStructure("dev")]
Unknown == [state |-> "unknown", age |-> 0, structure |-> EmptyStructure("dev")]
Corrupt == [state |-> "corrupt", age |-> 0, structure |-> EmptyStructure("dev")]
Entry(age, st) == [state |-> "entry", age |-> age, structure |-> st]

\* No scanner call is running.
NoScan == [env1 |-> "dev", env2 |-> "dev", force |-> FALSE,
           before |-> [e \in {"dev", "dev-2"} |-> NoEntry],
           runs |-> <<>>, compared |-> None]

\* ---------------------------------------------------------- diff: the data
\* The directories of a tree: the root and "build", which exists when a
\* file below it does.
Dirs == {".", "build"}
HasDir(tree, d) == d = "." \/ \E p \in Paths : Under(p, d) /\ tree[p] # 0

\* One line of `rsync --itemize-changes --out-format="%i %f"`.
Line(item, path) == [item |-> item, path |-> path]

\* The lines of a dry run with --checksum --delete from src to dst that got
\* to the paths in S: a file or directory missing in dst is itemized with
\* "+++++++++", a file with other content as a change, an entry missing in
\* src with "*deleting"; a directory on both sides whose modification time
\* differs (those in `touched`) is itemized as ".d..t......".
ItemizedLines(src, dst, S, touched) ==
    {Line(">f+++++++++", p) : p \in {q \in S : ~RSYNC_EXCLUDES(q) /\ src[q] # 0 /\ dst[q] = 0}}
    \cup {Line(">fc........", p) :
            p \in {q \in S : ~RSYNC_EXCLUDES(q) /\ src[q] # 0 /\ dst[q] # 0 /\ src[q] # dst[q]}}
    \cup {Line("*deleting", p) : p \in {q \in S : ~RSYNC_EXCLUDES(q) /\ src[q] = 0 /\ dst[q] # 0}}
    \cup {Line("cd+++++++++", d) :
            d \in {c \in Dirs : HasDir(src, c) /\ ~HasDir(dst, c) /\ \E q \in S : Under(q, c)}}
    \cup {Line("*deleting", d) :
            d \in {c \in Dirs : ~HasDir(src, c) /\ HasDir(dst, c) /\ \E q \in S : Under(q, c)}}
    \cup {Line(".d..t......", d) :
            d \in {c \in touched : HasDir(src, c) /\ HasDir(dst, c)}}

\* The names of the report files: the two environments and the second.
ReportNames == {"dev", "dev-2"} \X {"dev", "dev-2"} \X (0..MaxTime)

\* No diff call is running.
NoDiff == [env1 |-> "dev", env2 |-> "dev", exit |-> "none", lines |-> {},
           before |-> [n \in ReportNames |-> None], report |-> None]

\* ------------------------------------------------ scanner: directory trees
\* PROJECT_MARKERS: the kinds in the order of the dict.
PROJECT_MARKERS == <<"python", "node", "go", "rust", "java", "ruby", "php">>

\* A directory name: a base and a number telling apart the directories
\* "pad1", "pad2", ...
Name(base, n) == [n |-> n, base |-> base]

\* A directory: its name, the kinds of which it holds a marker file, and
\* its subdirectories in the order find lists them.
Dir(name, markers, subs) == [name |-> name, markers |-> markers, subs |-> subs]

\* The names of NON_CODE_DIRS the model uses, the names matched by the
\* pattern "*.egg-info", and the names starting with ".".
DenyExact == {"node_modules", "build"}
DenySuffix == {"pkg.egg-info"}
Hidden == {".cache"}

\* The limits of the listing commands: `tail -20` and `head -50`, and the
\* depth beyond which _scan_directory returns.
TAIL_LINES == 20
HEAD_LINES == 50
MAX_DEPTH == 5

\* ProjectStructure as a walk fills it, with the history of the walk: the
\* paths _scan_directory was called on and the paths it listed.
NoStructure ==
    [all_code_dirs |-> {}, all_non_code_dirs |-> {}, called |-> {},
     components |-> <<>>, visited |-> {}]

\* No walk has run.
NoWalk == [structure |-> NoStructure, tree |-> Dir(Name("", 0), {}, <<>>)]

\* -------------------------------------------------------- config: the data
\* The access tokens the model tells apart: the placeholder written by
\* ensure_initialized, a token as GitLab issues them, and a token of more
\* than 50 base64 characters ending in "=".
Secrets == {"<your-token>", "glpat-1", "long-base64="}

\* A string of the `token` field: whether it starts with ENCRYPTED_PREFIX
\* ("enc:v1:"), whether what follows is a Fernet ciphertext of this
\* machine's key, and the token it is, or is the ciphertext of.
Str(prefix, sealed, text) == [prefix |-> prefix, sealed |-> sealed, text |-> text]
Plain(text) == Str(FALSE, FALSE, text)

\* The directories an environment can be configured to live in.
Roots == {"/data/a", "/data/b"}

\* The file ensure_initialized writes: a placeholder token in plain text.
DefaultConfig ==
    [path |-> [e \in Envs |-> "/data/a"], gitlab |-> Some(Plain("<your-token>")),
     written_by |-> "ensure_initialized"]

\* The root_path fields: the one stored in the cache file of each
\* environment, those of the structures the last scanner call returned (one
\* per run of scan, None for a run that raised), and the paths that were
\* configured when the call was made.  The cache files found at the start
\* were written under the configuration of the start.
NoRooted ==
    [configured |-> DefaultConfig.path, returned |-> <<>>, stored |-> DefaultConfig.path]

\* No config operation has run.
NoConfigOp == [name |-> "none", raised |-> "none", token |-> None]

\* ------------------------------------------------------------------- state
VARIABLES
    files,          \* [Envs -> Trees]: the files of each environment
    repo,           \* [Envs -> BOOLEAN]: the path is a git working tree
    head,           \* [Envs -> Trees]: the tree of the HEAD commit
    now,            \* the wall clock, in seconds
    backups,        \* [CpNames -> None or Some(tree)]: backup-<env>-<ts>/
    metas,          \* [CpNames -> None or Some(record)]: checkpoint-<env>-<ts>.json
    pc,             \* position of the running sync call, "idle" if none
    call,           \* the arguments of the running (or last) sync call
    checkpoint,     \* sync's local: None or Some(SyncCheckpoint)
    extra_excludes, \* sync's local: directories excluded by the scan
    src_structure,  \* sync's local: the component kinds the scan returned
    counts,         \* sync's locals synced, deleted
    verified,       \* sync's local
    steps,          \* the steps the running (or last) call executed
    failedAt,       \* the step that raised into sync's except clause, or "none"
    mutated,        \* a command that can modify the target has been started
    pre,            \* the target's files and the storage when the call began
    result,         \* what the last call returned: None or Some(SyncResult)
    raised,         \* the exception that escaped the last call, or "none"
    rb,             \* what the last rollback returned: "none", "True", "False"
    op,             \* the service call in progress: "none", "sync", "rollback"
    ncalls, nedits, \* counters bounding the behaviour
    captured,       \* history: the files each stored checkpoint was created from
    cleaning,       \* cleanup_checkpoints' frame: env, keep, the records still to remove
    prev,           \* history: the sync call that ended last, None if there is none
    cache,          \* [Envs -> entry]: the scan cache files scan-<env>.json
    scanned,        \* the frame of the running (or last) scanner call
    reports,        \* [ReportNames -> None or Some(file)]: diff-<a>-vs-<b>-<ts>.txt
    diffed,         \* the frame of the running (or last) diff call
    cfgfile,        \* the config file: the stored token, the path of each environment
    cfg,            \* the ConfigData a process holds: None or Some(record)
    cfgop,          \* the frame of the last config operation
    walked,         \* the frame of the last walk of _scan_directory over a tree
    rooted          \* the root_path in each cache file and in the structures scan returned

vars == <<files, repo, head, now, backups, metas, pc, call, checkpoint,
          extra_excludes, src_structure, counts, verified, steps, failedAt, mutated, pre,
          result, raised, rb, op, ncalls, nedits, captured, cleaning, prev,
          cache, scanned, reports, diffed, cfgfile, cfg, cfgop, walked, rooted>>

env == <<files, repo, head>>
storage == <<backups, metas, captured>>
locals == <<checkpoint, extra_excludes, src_structure, counts, verified>>
scanner == <<cache, scanned>>
differ == <<reports, diffed>>
config == <<cfgfile, cfg, cfgop>>
others == <<prev, scanner, differ, src_structure, config, walked, rooted>>

CpNames == Envs \X (0..MaxTime)

Strategies == {"safe", "force"}

\* The non-empty values of `--component` the model tells apart.
Filters == {Some({k}) : k \in Kinds}

NoCall == [source |-> "dev", target |-> "dev", strategy |-> "safe",
           backup |-> FALSE, verify |-> FALSE, auto_commit |-> FALSE,
           code_only |-> FALSE, components |-> None, checkpoint_id |-> None]

\* No cleanup is running.
NoCleaning == [env |-> "dev", keep |-> 0, todo |-> <<>>, at |-> "rmtree",
               listed |-> <<>>, missing |-> {}]

NoPre == [files |-> EmptyTree, backups |-> [n \in CpNames |-> None],
          metas |-> [n \in CpNames |-> None]]

\* GitStatus.dirty: `git status --porcelain` prints at least one line.
dirty(e) == files[e] # head[e]


\* ------------------------------------------------------- version control
\* How a git command run through ctx.client ends:
\*   "none"         it runs and reports the repository's real state
\*   "cmd_fail"     it exits non-zero (CommandResult.check_ok raises RuntimeError)
\*   "exec_error"   SSHClientWrapper.run raises paramiko.SSHException or a
\*                  socket error (not a RuntimeError); remote hosts only
\*   "exec_runtime" SSHClientWrapper.run raises RuntimeError (host key not in
\*                  known_hosts); remote hosts only
GitFaults(e) ==
    {"none", "cmd_fail"} \cup (IF is_remote(e) THEN {"exec_error", "exec_runtime"} ELSE {})

Returns == [raises |-> FALSE, error |-> "none"]
Raises(msg) == [raises |-> TRUE, error |-> msg]

\* GitRepo.ensure_repo followed by GitRepo.status, as a try block sees them:
\* the exception that comes out, or "none".
GitStatusException(e, fault) ==
    IF fault = "exec_error" THEN "SSHException"
    ELSE IF fault = "exec_runtime" THEN "RuntimeError:known_hosts"
    ELSE IF ~repo[e] THEN "RuntimeError:not_a_repo"
    ELSE IF fault = "cmd_fail" THEN "RuntimeError:git_failed"
    ELSE "none"

IsRuntimeError(exc) ==
    exc \in {"RuntimeError:known_hosts", "RuntimeError:not_a_repo", "RuntimeError:git_failed"}

\* What the dirty check gets to see of the target: "clean", "dirty", or the
\* exception that ended the query.
StatusSeen(e, fault) ==
    IF GitStatusException(e, fault) # "none" THEN GitStatusException(e, fault)
    ELSE IF dirty(e) THEN "dirty" ELSE "clean"

\* Mutant: without `except RuntimeError: raise` the dirty-target error is
\* swallowed by `except Exception` like every other exception.
_check_clean_target_swallowing(e, fault) == Returns

\* SafeSyncService._check_clean_target: `except RuntimeError: raise` lets
\* every RuntimeError out, the one of ensure_repo included; only other
\* exceptions reach `except Exception` and skip the check.
_check_clean_target(e, fault) ==
    LET exc == GitStatusException(e, fault) IN
    IF exc = "none"
    THEN IF dirty(e) THEN Raises("dirty_target") ELSE Returns
    ELSE IF IsRuntimeError(exc) THEN Raises(exc)
    ELSE Returns

\* The revision _create_checkpoint captures: ensure_repo and head_commit in
\* a try block whose except clause leaves git_commit = None.  A revision is
\* identified with its tree.
CapturedCommit(e, fault) ==
    IF fault = "none" /\ repo[e] THEN Some(head[e]) ELSE None

\* ----------------------------------------------------- checkpoint storage
SyncCheckpoint(ts, e, gc) ==
    [timestamp |-> ts, env_name |-> e, backup_path |-> <<e, ts>>, git_commit |-> gc]

\* History of a stored checkpoint: the files of the environment when it
\* was created and how the backup transfer ended.
Captured(tree, exit) == [files |-> tree, exit |-> exit]

\* The directory tree a backup location holds (nothing if it is missing).
BackupTree(name) == IF backups[name] = None THEN EmptyTree ELSE backups[name][1]

IsPrefix(s, t) == Len(s) <= Len(t) /\ \A i \in 1..Len(s) : s[i] = t[i]

\* checkpoint_dir.glob(f"checkpoint-{env}-*.json"): the metadata files whose
\* name starts with "checkpoint-<env>-".
GlobMatches(e, name) == IsPrefix(Tokens(e), Tokens(name[1]))

\* The records list_checkpoints reads (every record is written by
\* _create_checkpoint and parses).
ListedCheckpoints(e) ==
    {metas[n][1] : n \in {m \in CpNames : metas[m] # None /\ GlobMatches(e, m)}}

SortedDesc(s) == \A i \in 1..(Len(s) - 1) : s[i].timestamp >= s[i + 1].timestamp

\* sorted(checkpoints, key=timestamp, reverse=True) over the records S in
\* any directory order.
Listings(S) ==
    LET n == Cardinality(S)
    IN {s \in [1..n -> S] : (\A i, j \in 1..n : i # j => s[i] # s[j]) /\ SortedDesc(s)}

\* SafeSyncService.list_checkpoints: the records sorted by timestamp,
\* newest first; records with equal timestamps come in directory order, so
\* every such order is possible.
list_checkpoints(e) == Listings(ListedCheckpoints(e))

\* SafeSyncService._find_checkpoint on one listing: None, or Some(cp).
\* id = None asks for the latest.
_find_checkpoint(listing, id) ==
    IF Len(listing) = 0 THEN None
    ELSE IF id = None THEN Some(listing[1])
    ELSE LET hits == {i \in 1..Len(listing) : listing[i].timestamp = id[1]}
         IN IF hits = {} THEN None
            ELSE Some(listing[CHOOSE i \in hits : \A j \in hits : i <= j])

\* ------------------------------------------------------------- sync result
\* PROJECT_MARKERS in the order of the dict.
KindsInOrder == <<"python", "node">>

\* Lines 131-134 of sync: the kinds of the scanned components, narrowed to
\* the filter when one is given (an empty filter is no filter).
synced_components(c, types) ==
    LET kept == IF c.components # None /\ c.components[1] # {}
                THEN types \cap c.components[1] ELSE types
    IN SelectSeq(KindsInOrder, LAMBDA k : k \in kept)

SyncResult(ok, c, cp, cnt, ver, err) ==
    [success |-> ok, source |-> c.source, target |-> c.target,
     checkpoint |-> cp, files_synced |-> cnt[1], files_deleted |-> cnt[2],
     verified |-> ver, code_only |-> IF ok THEN c.code_only ELSE FALSE,
     components_synced |-> IF ok THEN synced_components(c, src_structure) ELSE <<>>,
     error |-> err]

\* Mutant: the failed result is built without the checkpoint made so far.
FailWithoutCheckpoint(step, cp, err) ==
    /\ pc' = "returned"
    /\ failedAt' = step
    /\ result' = Some(SyncResult(FALSE, call, None, <<0, 0>>, FALSE, err))

\* sync's `except Exception as e`: the call returns a failed result that
\* carries the checkpoint made so far; counts and verified take their
\* defaults.
Fail(step, cp, err) ==
    /\ pc' = "returned"
    /\ failedAt' = step
    /\ result' = Some(SyncResult(FALSE, call, cp, <<0, 0>>, FALSE, err))


\* ------------------------------------------------------------------ Init
\* The environments differ at the start: a file only the first has, an
\* excluded file, and a file only the second has.
InitFiles ==
    [e \in Envs |->
        IF e = "dev"
        THEN [p \in Paths |-> IF p = "build/out" THEN 0 ELSE 1]
        ELSE [p \in Paths |-> IF p = "build/out" THEN 1 ELSE 0]]

\* A repository is clean (HEAD holds the working tree) or has uncommitted
\* changes (HEAD holds an older, empty tree); without a repository there
\* is no HEAD and `head` is not read.
InitHeads ==
    {h \in [Envs -> {EmptyTree} \cup {InitFiles[e] : e \in Envs}] :
        \A e \in Envs : h[e] \in {InitFiles[e], EmptyTree}}

Init ==
    /\ files = InitFiles
    /\ repo \in [Envs -> BOOLEAN]
    /\ head \in {h \in InitHeads : \A e \in Envs : ~repo[e] => h[e] = InitFiles[e]}
    /\ now = 0
    /\ backups = [n \in CpNames |-> None]
    /\ metas = [n \in CpNames |-> None]
    /\ pc = "idle"
    /\ call = NoCall
    /\ checkpoint = None
    /\ extra_excludes = {}
    /\ src_structure = {}
    /\ counts = <<0, 0>>
    /\ verified = FALSE
    /\ steps = <<>>
    /\ failedAt = "none"
    /\ mutated = FALSE
    /\ pre = NoPre
    /\ op = "none"
    /\ result = None
    /\ raised = "none"
    /\ rb = "none"
    /\ ncalls = 0
    /\ nedits = 0
    /\ captured = [n \in CpNames |-> None]
    /\ cleaning = NoCleaning
    /\ prev = None
    /\ cache = [e \in Envs |-> Unknown]
    /\ scanned = NoScan
    /\ reports = [n \in ReportNames |-> None]
    /\ diffed = NoDiff
    /\ cfgfile = DefaultConfig
    /\ cfg = None
    /\ cfgop = NoConfigOp
    /\ walked = NoWalk
    /\ rooted = NoRooted

\* ------------------------------------------------ SafeSyncService.sync
\* SafeSyncService._ctx: the name is looked up in config.envs.
_ctx(e) == IF e \in Envs THEN Returns ELSE Raises("ValueError:env_not_configured")

\* Lines 115-121: both names are resolved before the try block, so a
\* ValueError of _ctx leaves sync as an exception; otherwise the locals are
\* initialised and the try block is entered.
SyncCall(source, target, strategy, backup, verify, auto_commit, code_only, components) ==
    /\ pc = "idle"
    /\ call' = [source |-> source, target |-> target, strategy |-> strategy,
                backup |-> backup, verify |-> verify,
                auto_commit |-> auto_commit, code_only |-> code_only,
                components |-> components, checkpoint_id |-> None]
    /\ checkpoint' = None
    /\ extra_excludes' = {}
    /\ src_structure' = {}
    /\ counts' = <<0, 0>>
    /\ verified' = FALSE
    /\ steps' = <<>>
    /\ failedAt' = "none"
    /\ mutated' = FALSE
    /\ result' = None
    /\ rb' = "none"
    /\ op' = "sync"
    /\ pre' = [files |-> IF target \in Envs THEN files[target] ELSE EmptyTree,
               backups |-> backups, metas |-> metas]
    /\ IF _ctx(source).raises
       THEN raised' = _ctx(source).error /\ pc' = "returned"
       ELSE IF _ctx(target).raises
       THEN raised' = _ctx(target).error /\ pc' = "returned"
       ELSE raised' = "none" /\ pc' = "scan"
    /\ UNCHANGED <<rooted, walked, config, prev, scanner, differ, cleaning, env, now, storage, ncalls, nedits>>

\* The log of executed steps: one entry per step, with what it met.
Log(step, outcome) == Append(steps, [step |-> step, outcome |-> outcome])

\* The structures a scan of e can return, fresh or from the cache: nothing
\* when the root could not be listed, otherwise the root as the one
\* component with the non-code directories seen below it at that time.
ScannedStructures(e) ==
    {EmptyStructure(e)}
    \cup {ProjectStructure(e, {RootKind(e)}, {}, n) : n \in SUBSET NonCodeDirs}

\* Step 0 (lines 125-136): with code_only the source is scanned (read-only
\* listing commands, or the scan cache) and the non-code directories become
\* extra excludes.  The cache entry the scan reads and may rewrite is not
\* followed here: the scan returns any structure a scan can return.  A command that cannot be executed on a remote source
\* raises into sync's except clause.
StructureScan ==
    /\ pc = "scan"
    /\ IF call.code_only
       THEN \E fault \in GitFaults(call.source) \ {"cmd_fail"},
               st \in ScannedStructures(call.source) :
              IF fault = "none"
              THEN /\ steps' = Log("StructureScan", "scanned")
                   /\ extra_excludes' = st.all_non_code_dirs
                   /\ src_structure' = st.types
                   /\ pc' = "dirty"
                   /\ UNCHANGED <<failedAt, result>>
              ELSE /\ steps' = Log("StructureScan", fault)
                   /\ Fail("StructureScan", checkpoint, fault)
                   /\ UNCHANGED <<extra_excludes, src_structure>>
       ELSE /\ pc' = "dirty"
            /\ UNCHANGED <<steps, extra_excludes, src_structure, failedAt, result>>
    /\ UNCHANGED <<rooted, walked, config, prev, scanner, differ, cleaning, env, now, storage, call, checkpoint, counts, verified,
                   mutated, pre, raised, rb, op, ncalls, nedits>>

\* Step 1 (lines 139-140): the dirty check of the target under strategy=safe.
DirtyCheck ==
    /\ pc = "dirty"
    /\ IF call.strategy = "safe"
       THEN \E fault \in GitFaults(call.target) :
              /\ steps' = Log("DirtyCheck", StatusSeen(call.target, fault))
              /\ IF _check_clean_target(call.target, fault).raises
                 THEN Fail("DirtyCheck", checkpoint,
                           _check_clean_target(call.target, fault).error)
                 ELSE pc' = "checkpoint" /\ UNCHANGED <<failedAt, result>>
       ELSE /\ pc' = "checkpoint"
            /\ UNCHANGED <<steps, failedAt, result>>
    /\ UNCHANGED <<others, cleaning, env, now, storage, call, locals, mutated, pre, raised, rb,
                   op, ncalls, nedits>>

\* Mutant: the backup transfer is left out (only the record is written).
BackupNotWritten(e, S) == backups

\* SafeSyncService._create_checkpoint, the storage it leaves: the backup
\* directory named by environment and second is created (exist_ok) and
\* `rsync -az RSYNC_EXCLUDES env/ backup/` copies into it the paths in S.
BackupWritten(e, S) ==
    [backups EXCEPT ![<<e, now>>] =
        Some(RsyncApply(files[e], BackupTree(<<e, now>>), S, {}, FALSE))]

\* SafeSyncService._create_checkpoint, the record it returns and persists.
_create_checkpoint(e, fault) == SyncCheckpoint(now, e, CapturedCommit(e, fault))

\* A direct call of _create_checkpoint(ctx) for a configured environment.
CreateCheckpoint(e) ==
    /\ pc = "idle"
    /\ ncalls < MaxCalls
    /\ ncalls' = ncalls + 1
    /\ \E exit \in RsyncExits, fault \in GitFaults(e) : \E S \in Reached(exit) :
         /\ backups' = BackupWritten(e, S)
         /\ IF IsFatal(exit)
            THEN /\ raised' = "RuntimeError:backup_failed"
                 /\ UNCHANGED <<metas, captured>>
            ELSE /\ raised' = "none"
                 /\ metas' = [metas EXCEPT ![<<e, now>>] = Some(_create_checkpoint(e, fault))]
                 /\ captured' = [captured EXCEPT ![<<e, now>>] = Some(Captured(files[e], exit))]
    /\ pc' = "returned"
    /\ op' = "create"
    /\ UNCHANGED <<others, cleaning, env, now, call, locals, steps, failedAt, mutated, pre, result,
                   rb, nedits>>

\* Mutant: the checkpoint is made whatever the backup flag says.
WantsCheckpointAlways(c) == TRUE

\* Line 143, `if backup:`.
WantsCheckpoint(c) == c.backup

\* Step 2 (lines 143-146): with backup the target is checkpointed.  A fatal
\* exit of the backup transfer raises before the metadata record is
\* written and before sync's local `checkpoint` is assigned.
Checkpoint ==
    /\ pc = "checkpoint"
    /\ IF WantsCheckpoint(call)
       THEN \E exit \in RsyncExits, fault \in GitFaults(call.target) :
            \E S \in Reached(exit) :
              /\ steps' = Log("Checkpoint", exit)
              /\ backups' = BackupWritten(call.target, S)
              /\ IF IsFatal(exit)
                 THEN /\ Fail("Checkpoint", checkpoint, "backup_failed")
                      /\ UNCHANGED <<metas, captured, checkpoint>>
                 ELSE /\ checkpoint' = Some(_create_checkpoint(call.target, fault))
                      /\ captured' = [captured EXCEPT ![<<call.target, now>>] =
                                         Some(Captured(files[call.target], exit))]
                      /\ metas' = [metas EXCEPT ![<<call.target, now>>] =
                                      Some(_create_checkpoint(call.target, fault))]
                      /\ pc' = "transfer"
                      /\ UNCHANGED <<failedAt, result>>
       ELSE /\ pc' = "transfer"
            /\ UNCHANGED <<steps, storage, checkpoint, failedAt, result>>
    /\ UNCHANGED <<others, cleaning, env, now, call, extra_excludes, counts, verified, mutated,
                   pre, raised, rb, op, ncalls, nedits>>

\* A content that has the size and the modification time of content 1: an
\* older version restored with its time stamp, an edit in place within the
\* same second.
Twin == 2

\* rsync's quick check: two files of the same size and modification time
\* are taken for the same.
QuickSame(a, b) == a = b \/ {a, b} = {1, Twin}

\* The files a transfer leaves alone although they differ: none with
\* --checksum, without it those that pass the quick check.
Skipped(src, dst, checksum) ==
    IF checksum THEN {}
    ELSE {p \in Paths : src[p] # dst[p] /\ QuickSame(src[p], dst[p])}

\* Line 152, `checksum=strategy == "safe"`: the paths among S that the
\* transfer of this call compares as different.
Compared(S) == S \ Skipped(files[call.source], files[call.target], call.strategy = "safe")

\* SafeSyncService._do_sync, the target it leaves: rsync with --delete, the
\* standard and the extra excludes, having handled the paths in S.
_do_sync(S) ==
    RsyncApply(files[call.source], files[call.target], Compared(S), extra_excludes, TRUE)

\* Step 3 (lines 149-155): the transfer.  The target may be changed even
\* when rsync then exits fatally; the counts are parsed from the itemized
\* output of a usable run.
Transfer ==
    /\ pc = "transfer"
    /\ mutated' = TRUE
    /\ \E run \in RsyncRuns(call.source, call.target) :
         LET exit == run[1]
             S == run[2]
         IN
         /\ steps' = Log("Transfer", exit)
         /\ files' = [files EXCEPT ![call.target] = _do_sync(S)]
         /\ IF IsFatal(exit)
            THEN /\ Fail("Transfer", checkpoint, "rsync_failed")
                 /\ UNCHANGED counts
            ELSE /\ counts' = <<CountSynced(files[call.source], files[call.target], Compared(S),
                                            extra_excludes),
                                CountDeleted(files[call.source], files[call.target], Compared(S),
                                             extra_excludes)>>
                 /\ pc' = "verify"
                 /\ UNCHANGED <<failedAt, result>>
    /\ UNCHANGED <<others, cleaning, repo, head, now, storage, call, checkpoint, extra_excludes,
                   verified, pre, raised, rb, op, ncalls, nedits>>

\* The itemized lines of the verifying dry run: the paths, among those the
\* run got to, that still differ between source and target.
DiffLines(S) ==
    {p \in S : /\ ~Excluded(p, extra_excludes)
               /\ files[call.source][p] # files[call.target][p]}

\* Mutant: the itemized output of the dry run is not looked at.
_verify_sync_exit_only(exit, S) == ~IsFatal(exit)

\* SafeSyncService._verify_sync: a dry run with --checksum; a fatal exit
\* gives False, otherwise the result is True iff no itemized line is left.
_verify_sync(exit, S) == ~IsFatal(exit) /\ DiffLines(S) = {}

\* What the verification met.
VerifyMet(exit, S) ==
    IF exit = "fatal" THEN "fatal"
    ELSE IF DiffLines(S) = {} THEN "match" ELSE "mismatch"

\* Step 4 (lines 158-165): the verification; a mismatch is only logged.
Verify ==
    /\ pc = "verify"
    /\ IF call.verify
       THEN \E run \in RsyncRuns(call.source, call.target) :
              /\ steps' = Log("Verify", VerifyMet(run[1], run[2]))
              /\ verified' = _verify_sync(run[1], run[2])
       ELSE UNCHANGED <<steps, verified>>
    /\ pc' = "commit"
    /\ UNCHANGED <<others, cleaning, env, now, storage, call, checkpoint, extra_excludes, counts,
                   failedAt, mutated, pre, result, raised, rb, op, ncalls, nedits>>

\* What the auto-commit met: the exception of the status query, a clean
\* tree, or a dirty tree whose commit went through or not.
CommitMet(e, fault, committed) ==
    IF StatusSeen(e, fault) = "clean" THEN "clean"
    ELSE IF StatusSeen(e, fault) = "dirty"
    THEN IF committed THEN "committed" ELSE "commit_failed"
    ELSE StatusSeen(e, fault)

\* Mutant: without the try block an exception of the status query leaves
\* _auto_commit and reaches sync's except clause.
_auto_commit_raising(e, fault, committed) ==
    [raises |-> CommitMet(e, fault, committed) \notin {"clean", "committed", "commit_failed"},
     error |-> CommitMet(e, fault, committed),
     head |-> IF CommitMet(e, fault, committed) = "committed"
              THEN [head EXCEPT ![e] = files[e]] ELSE head]

\* SafeSyncService._auto_commit: every exception is caught and logged, so
\* the call never raises; `git add -A` and `git commit` run only on a dirty
\* repository and their exit codes are not looked at.
_auto_commit(e, fault, committed) ==
    [raises |-> FALSE,
     error |-> "none",
     head |-> IF CommitMet(e, fault, committed) = "committed"
              THEN [head EXCEPT ![e] = files[e]] ELSE head]

\* Step 5 and the return (lines 168-182).
AutoCommit ==
    /\ pc = "commit"
    /\ IF call.auto_commit
       THEN \E fault \in GitFaults(call.target), committed \in BOOLEAN :
              LET r == _auto_commit(call.target, fault, committed) IN
              /\ steps' = Log("AutoCommit", CommitMet(call.target, fault, committed))
              /\ mutated' = TRUE
              /\ head' = r.head
              /\ IF r.raises
                 THEN Fail("AutoCommit", checkpoint, r.error)
                 ELSE /\ result' = Some(SyncResult(TRUE, call, checkpoint, counts,
                                                   verified, "none"))
                      /\ pc' = "returned"
                      /\ UNCHANGED failedAt
       ELSE /\ result' = Some(SyncResult(TRUE, call, checkpoint, counts, verified, "none"))
            /\ pc' = "returned"
            /\ UNCHANGED <<steps, mutated, head, failedAt>>
    /\ UNCHANGED <<others, cleaning, files, repo, now, storage, call, locals, pre, raised, rb, op,
                   ncalls, nedits>>

\* ------------------------------------------- SafeSyncService.rollback
\* `git reset --hard <commit>`: files of the commit are written, files
\* tracked by the current HEAD but not by the commit are removed, untracked
\* files stay.
reset_hard(cur, headTree, commitTree) ==
    [p \in Paths |->
        IF commitTree[p] # 0 THEN commitTree[p]
        ELSE IF headTree[p] # 0 THEN 0 ELSE cur[p]]

\* How the restore transfer can end: a backup location that is missing
\* cannot be read, rsync then reports exit 23 (or a fatal code) and neither
\* copies nor deletes anything.
RestoreRuns(cp) ==
    IF backups[cp.backup_path] = None
    THEN {<<"partial", {}>>, <<"fatal", {}>>}
    ELSE {<<exit, S>> : exit \in {"ok"}, S \in {Paths}}
         \cup {<<exit, S>> : exit \in {"partial", "fatal"}, S \in SUBSET Paths}

\* Lines 213-223: `rsync -az --delete RSYNC_EXCLUDES backup/ target/`.
Restored(target, cp, S) ==
    RsyncApply(BackupTree(cp.backup_path), files[target], S, {}, TRUE)

\* What the hard reset of rollback met: it is attempted only when the
\* checkpoint carries a revision and fails when git cannot be run or the
\* path is no repository.
ResetMet(target, cp, fault) ==
    IF cp.git_commit = None THEN "skipped"
    ELSE IF fault = "none" /\ repo[target] THEN "ok" ELSE "failed"

\* Mutant: a failed hard reset makes rollback return False.
rollback_returns_strict(exit, reset) == ~IsFatal(exit) /\ reset # "failed"

\* Lines 222-239: what rollback returns once a checkpoint was found; a
\* failed reset is caught by the inner try block and only logged.
rollback_returns(exit, reset) == ~IsFatal(exit)

\* The steps of one rollback, as sync's steps are logged.
RollbackLog(exit, reset) ==
    <<[step |-> "Find", outcome |-> "found"], [step |-> "Restore", outcome |-> exit]>>
    \o (IF IsFatal(exit) \/ reset = "skipped" THEN <<>>
        ELSE <<[step |-> "Reset", outcome |-> reset]>>)

\* rollback(target, checkpoint_id); id = None asks for the latest checkpoint.
\* _ctx is called before the try block (line 202), the checkpoint is looked
\* up (lines 205-208), and the restore with the best-effort git reset runs
\* inside the try block (lines 212-239).
Rollback(target, id) ==
    /\ pc = "idle"
    /\ ncalls < MaxCalls
    /\ ncalls' = ncalls + 1
    /\ result' = None
    /\ call' = [NoCall EXCEPT !.target = target, !.checkpoint_id = id]
    /\ IF _ctx(target).raises
       THEN /\ raised' = _ctx(target).error
            /\ rb' = "none"
            /\ checkpoint' = None
            /\ steps' = <<>>
            /\ mutated' = FALSE
            /\ UNCHANGED <<files, head>>
       ELSE /\ raised' = "none"
            /\ \E listing \in list_checkpoints(target) :
               LET found == _find_checkpoint(listing, id) IN
               /\ checkpoint' = found
               /\ IF found = None
                  THEN /\ rb' = "False"
                       /\ steps' = <<[step |-> "Find", outcome |-> "missing"]>>
                       /\ mutated' = FALSE
                       /\ UNCHANGED <<files, head>>
                  ELSE LET cp == found[1] IN
                       \E run \in RestoreRuns(cp), fault \in GitFaults(target) :
                         LET restored == Restored(target, cp, run[2])
                             reset == IF IsFatal(run[1]) THEN "skipped"
                                      ELSE ResetMet(target, cp, fault)
                         IN /\ rb' = IF rollback_returns(run[1], reset)
                                     THEN "True" ELSE "False"
                            /\ steps' = RollbackLog(run[1], reset)
                            /\ mutated' = TRUE
                            /\ files' = [files EXCEPT ![target] =
                                   IF reset = "ok"
                                   THEN reset_hard(restored, head[target], cp.git_commit[1])
                                   ELSE restored]
                            /\ head' = IF reset = "ok"
                                       THEN [head EXCEPT ![target] = cp.git_commit[1]]
                                       ELSE head
    /\ pc' = "returned"
    /\ op' = "rollback"
    /\ pre' = [files |-> IF target \in Envs THEN files[target] ELSE EmptyTree,
               backups |-> backups, metas |-> metas]
    /\ UNCHANGED <<others, cleaning, repo, now, storage, extra_excludes, counts, verified,
                   failedAt, nedits>>

\* ---------------------------------- SafeSyncService.cleanup_checkpoints
\* The keep values a caller passes.
MaxKeep == 2
Keeps == 0..MaxKeep

\* checkpoints[keep:]
Beyond(listing, keep) == SubSeq(listing, keep + 1, Len(listing))

\* Line 264: the metadata file cleanup removes for a listed record is named
\* by the environment passed to cleanup and the record's timestamp.
MetaFileOf(e, cp) == <<e, cp.timestamp>>

\* Lines 260-262: shutil.rmtree of the record's backup directory, guarded by
\* exists().
Rmtree(b, cp) == [b EXCEPT ![cp.backup_path] = None]

\* Lines 264-266: unlink of the metadata file, guarded by exists().
Unlink(m, e, cp) ==
    IF MetaFileOf(e, cp) \in CpNames
    THEN [m EXCEPT ![MetaFileOf(e, cp)] = None] ELSE m

\* Lines 256-257: the records are listed once and the loop runs over those
\* beyond the keep limit.  The environment name is not looked up in the
\* configuration.  A call that repeats an interrupted one keeps `pre`, the
\* storage the first attempt started from.
CleanupCall(e, keep) ==
    /\ pc = "idle"
    /\ ncalls < MaxCalls
    /\ ncalls' = ncalls + 1
    /\ \E listing \in list_checkpoints(e) :
         cleaning' = [env |-> e, keep |-> keep, todo |-> Beyond(listing, keep),
                      at |-> "rmtree", listed |-> listing, missing |-> {}]
    /\ pc' = "cleanup"
    /\ op' = IF op = "interrupted" /\ cleaning.env = e /\ cleaning.keep = keep
             THEN "retry" ELSE "cleanup"
    /\ pre' = IF op = "interrupted" /\ cleaning.env = e /\ cleaning.keep = keep
              THEN pre
              ELSE [files |-> EmptyTree, backups |-> backups, metas |-> metas]
    /\ call' = [NoCall EXCEPT !.target = e]
    /\ steps' = <<>>
    /\ raised' = "none"
    /\ result' = None
    /\ rb' = "none"
    /\ UNCHANGED <<others, env, now, storage, locals, failedAt, mutated, nedits>>

\* Lines 260-262: the backup directory of the next record is removed if it
\* exists.
CleanupRmtree ==
    /\ pc = "cleanup"
    /\ cleaning.todo # <<>>
    /\ cleaning.at = "rmtree"
    /\ LET cp == Head(cleaning.todo) IN
         /\ backups' = Rmtree(backups, cp)
         /\ steps' = Log("rmtree", IF backups[cp.backup_path] = None
                                   THEN "missing" ELSE "removed")
         /\ cleaning' = [cleaning EXCEPT
                           !.at = "unlink",
                           !.missing = IF backups[cp.backup_path] = None
                                       THEN @ \cup {cp} ELSE @]
    /\ UNCHANGED <<others, env, now, metas, captured, pc, call, locals, failedAt, mutated,
                   pre, result, raised, rb, op, ncalls, nedits>>

\* Lines 264-266: the metadata file named by cleanup's environment and the
\* record's timestamp is removed if it exists; the loop goes on.
CleanupUnlink ==
    /\ pc = "cleanup"
    /\ cleaning.todo # <<>>
    /\ cleaning.at = "unlink"
    /\ LET f == MetaFileOf(cleaning.env, Head(cleaning.todo)) IN
         IF f \in CpNames /\ metas[f] # None
         THEN /\ metas' = Unlink(metas, cleaning.env, Head(cleaning.todo))
              /\ captured' = [captured EXCEPT ![f] = None]
              /\ steps' = Log("unlink", "removed")
         ELSE /\ UNCHANGED <<metas, captured>>
              /\ steps' = Log("unlink", "missing")
    /\ cleaning' = [cleaning EXCEPT !.todo = Tail(cleaning.todo), !.at = "rmtree"]
    /\ UNCHANGED <<others, env, now, backups, pc, call, locals, failedAt, mutated, pre,
                   result, raised, rb, op, ncalls, nedits>>

\* Line 267: the loop is over and cleanup returns.
CleanupReturn ==
    /\ pc = "cleanup"
    /\ cleaning.todo = <<>>
    /\ pc' = "returned"
    /\ UNCHANGED <<others, cleaning, env, now, storage, call, locals, steps, failedAt,
                   mutated, pre, result, raised, rb, op, ncalls, nedits>>

\* shutil.rmtree (line 262) removes the entries of the directory one after
\* the other: a step that removes one file of the backup while the
\* directory itself is still there.
RmtreeEntry(b, cp, p) == [b EXCEPT ![cp.backup_path] = Some([@[1] EXCEPT ![p] = 0])]

CleanupRmtreeEntry ==
    /\ pc = "cleanup"
    /\ cleaning.todo # <<>>
    /\ cleaning.at = "rmtree"
    /\ LET cp == Head(cleaning.todo) IN
         /\ backups[cp.backup_path] # None
         /\ \E p \in Paths :
              /\ backups[cp.backup_path][1][p] # 0
              /\ backups' = RmtreeEntry(backups, cp, p)
    /\ UNCHANGED <<others, cleaning, env, now, metas, captured, pc, call, locals, steps,
                   failedAt, mutated, pre, result, raised, rb, op, ncalls, nedits>>

\* rollback(target, checkpoint_id) called by a second process while
\* cleanup_checkpoints is in its loop (lines 202-239 against 257-266; no lock
\* is taken by either).  The rollback reads the storage as the cleanup has
\* left it so far.  `call` and `pre.files` describe the rollback; `pre.backups`
\* and `pre.metas` stay the storage the cleanup started from; the entries of
\* both processes go to the one log.
RollbackDuringCleanup(target, id) ==
    /\ pc = "cleanup"
    /\ rb = "none" /\ raised = "none"
    /\ ncalls < MaxCalls
    /\ ncalls' = ncalls + 1
    /\ call' = [NoCall EXCEPT !.target = target, !.checkpoint_id = id]
    /\ pre' = [pre EXCEPT !.files = IF target \in Envs THEN files[target] ELSE EmptyTree]
    /\ IF _ctx(target).raises
       THEN /\ raised' = _ctx(target).error
            /\ UNCHANGED <<rb, checkpoint, steps, mutated, files, head>>
       ELSE /\ raised' = "none"
            /\ \E listing \in list_checkpoints(target) :
               LET found == _find_checkpoint(listing, id) IN
               /\ checkpoint' = found
               /\ IF found = None
                  THEN /\ rb' = "False"
                       /\ steps' = Log("Find", "missing")
                       /\ UNCHANGED <<mutated, files, head>>
                  ELSE LET cp == found[1] IN
                       \E run \in RestoreRuns(cp), fault \in GitFaults(target) :
                         LET restored == Restored(target, cp, run[2])
                             reset == IF IsFatal(run[1]) THEN "skipped"
                                      ELSE ResetMet(target, cp, fault)
                         IN /\ rb' = IF rollback_returns(run[1], reset)
                                     THEN "True" ELSE "False"
                            /\ steps' = steps \o RollbackLog(run[1], reset)
                            /\ mutated' = TRUE
                            /\ files' = [files EXCEPT ![target] =
                                   IF reset = "ok"
                                   THEN reset_hard(restored, head[target], cp.git_commit[1])
                                   ELSE restored]
                            /\ head' = IF reset = "ok"
                                       THEN [head EXCEPT ![target] = cp.git_commit[1]]
                                       ELSE head
    /\ UNCHANGED <<others, cleaning, repo, now, storage, pc, extra_excludes, counts,
                   verified, failedAt, result, op, nedits>>

\* The process is killed while cleanup_checkpoints is in its loop: what it
\* removed so far stays removed, nothing else of the call survives.
Interrupt ==
    /\ pc = "cleanup"
    /\ cleaning.todo # <<>>
    /\ op = "cleanup"
    /\ pc' = "idle"
    /\ op' = "interrupted"
    /\ cleaning' = [cleaning EXCEPT !.todo = <<>>, !.at = "rmtree",
                                    !.listed = <<>>, !.missing = {}]
    /\ steps' = <<>>
    /\ UNCHANGED <<others, env, now, storage, call, locals, failedAt, mutated, pre,
                   result, raised, rb, ncalls, nedits>>

\* ------------------------------------------------- ProjectScanner.scan
\* Mutant: the age of the cache file is not looked at.
_load_cache_ageless(entry) ==
    IF entry.state = "entry" THEN Some(entry.structure) ELSE None

\* ProjectScanner._load_cache: None when the file is missing, when it is
\* older than the TTL (`time.time() - st_mtime > 3600`) or when reading it
\* raises; otherwise the stored structure.
_load_cache(entry) ==
    IF entry.state = "entry" /\ ~(entry.age > CACHE_TTL)
    THEN Some(entry.structure) ELSE None

\* The structures earlier scans of e may have stored.
StoredStructures(e) ==
    {ProjectStructure(e, t, {}, n) : t \in {{}, {RootKind(e)}}, n \in SUBSET NonCodeDirs}

\* The cache file a scanner call finds: an entry left by earlier runs can
\* be anything.
Resolve(e, entry) ==
    IF entry.state = "unknown"
    THEN {NoEntry, Corrupt} \cup {Entry(a, st) : a \in Ages, st \in StoredStructures(e)}
    ELSE {entry}

\* ProjectScanner._scan_directory from the root: when the root cannot be
\* listed nothing is found; otherwise the root, which holds a marker file,
\* is the one component, _analyze_component puts its deny-listed
\* subdirectories among the non-code dirs, and its path "" adds no code dir.
_scan_directory(e, listed) ==
    IF listed
    THEN ProjectStructure(e, {RootKind(e)}, {},
                          {d \in NonCodeDirs : \E p \in Paths : Under(p, d) /\ files[e][p] # 0})
    ELSE EmptyStructure(e)

\* One call of scan as a scanner call records it: the environment, how the
\* call ended ("cached", "scanned" or the exception), the structure it
\* returned and the cache file it found.
Run(e, outcome, st, found) ==
    [env |-> e, outcome |-> outcome, structure |-> st, found |-> found]

ScanRaised(run) == run.outcome \in {"ValueError", "SSHException"}

\* Lines 171-199 of scan once the cache file is known: a usable entry is
\* returned unless force is set; otherwise the environment is scanned (a
\* command on a remote host may raise) and the result is saved.
ScanFound(c, e, force, found) ==
    LET seen == [c EXCEPT ![e] = found] IN
    IF ~force /\ _load_cache(found) # None
    THEN {[cache |-> seen, run |-> Run(e, "cached", _load_cache(found)[1], found)]}
    ELSE {[cache |-> [c EXCEPT ![e] = Entry(0, _scan_directory(e, listed))],
           run |-> Run(e, "scanned", _scan_directory(e, listed), found)] :
             listed \in BOOLEAN}
         \cup (IF is_remote(e)
               THEN {[cache |-> seen,
                      run |-> Run(e, "SSHException", EmptyStructure(e), found)]}
               ELSE {})

\* ProjectScanner.scan(env, force) on the cache files c: the ways it can
\* end, each with the cache files it leaves.
scan(c, e, force) ==
    IF _ctx(e).raises
    THEN {[cache |-> c, run |-> Run(e, "ValueError", EmptyStructure(e), NoEntry)]}
    ELSE UNION {ScanFound(c, e, force, found) : found \in Resolve(e, c[e])}

\* Line 180 and lines 340-341: a structure that scan builds carries the
\* configured path, ctx.entry.path; a structure read from the cache file
\* carries the root_path stored in the file, whatever the configuration
\* says now.
RootReturned(stored, run, path) ==
    IF ScanRaised(run) THEN None
    ELSE IF run.outcome = "cached" THEN Some(stored[run.env])
    ELSE Some(path[run.env])

\* Lines 194 and 351-354: a run that scanned the environment stores its
\* structure, root_path included.
StoredAfter(stored, run, path) ==
    IF run.outcome = "scanned" THEN [stored EXCEPT ![run.env] = path[run.env]]
    ELSE stored

\* The root_path fields after a scanner call of one or two runs made under
\* the configured paths `path`.
Rooted(runs, stored, path) ==
    LET s1 == StoredAfter(stored, runs[1], path) IN
    IF Len(runs) = 1
    THEN [configured |-> path,
          returned |-> <<RootReturned(stored, runs[1], path)>>,
          stored |-> s1]
    ELSE [configured |-> path,
          returned |-> <<RootReturned(stored, runs[1], path),
                         RootReturned(s1, runs[2], path)>>,
          stored |-> StoredAfter(s1, runs[2], path)]

\* `envsync scan <env> [--force]`; the scanner is built over
\* ConfigService().load(), the config file as it is when the command starts.
Scan(e, force) ==
    /\ pc = "idle"
    /\ \E o \in scan(cache, e, force) :
         /\ cache' = o.cache
         /\ scanned' = [env1 |-> e, env2 |-> e, force |-> force, before |-> cache,
                        runs |-> <<o.run>>, compared |-> None]
         /\ raised' = IF ScanRaised(o.run) THEN o.run.outcome ELSE "none"
         /\ rooted' = Rooted(<<o.run>>, rooted.stored, cfgfile.path)
    /\ pc' = "returned"
    /\ op' = "scan"
    /\ UNCHANGED <<walked, config, prev, differ, cleaning, env, now, storage, call, locals, steps,
                   failedAt, mutated, pre, result, rb, ncalls, nedits>>

\* Lines 207-226 of compare_structures: the comparison of two structures.
compare(s1, s2) ==
    [types_match |-> s1.types = s2.types,
     types_in_1_only |-> s1.types \ s2.types,
     types_in_2_only |-> s2.types \ s1.types,
     code_dirs_match |-> s1.all_code_dirs = s2.all_code_dirs,
     code_only_in_1 |-> s1.all_code_dirs \ s2.all_code_dirs,
     code_only_in_2 |-> s2.all_code_dirs \ s1.all_code_dirs,
     structure_compatible |-> /\ s1.all_code_dirs \ s2.all_code_dirs = {}
                              /\ s2.all_code_dirs \ s1.all_code_dirs = {}]

\* ProjectScanner.compare_structures(env1, env2): both environments are
\* scanned (lines 205-206), the second after the first, and the structures
\* are compared.
CompareStructures(env1, env2) ==
    /\ pc = "idle"
    /\ \E o1 \in scan(cache, env1, FALSE) :
         IF ScanRaised(o1.run)
         THEN /\ cache' = o1.cache
              /\ scanned' = [env1 |-> env1, env2 |-> env2, force |-> FALSE,
                             before |-> cache, runs |-> <<o1.run>>, compared |-> None]
              /\ raised' = o1.run.outcome
              /\ rooted' = Rooted(<<o1.run>>, rooted.stored, cfgfile.path)
         ELSE \E o2 \in scan(o1.cache, env2, FALSE) :
              /\ cache' = o2.cache
              /\ scanned' = [env1 |-> env1, env2 |-> env2, force |-> FALSE,
                             before |-> cache, runs |-> <<o1.run, o2.run>>,
                             compared |-> IF ScanRaised(o2.run) THEN None
                                          ELSE Some(compare(o1.run.structure,
                                                            o2.run.structure))]
              /\ raised' = IF ScanRaised(o2.run) THEN o2.run.outcome ELSE "none"
              /\ rooted' = Rooted(<<o1.run, o2.run>>, rooted.stored, cfgfile.path)
    /\ pc' = "returned"
    /\ op' = "compare"
    /\ UNCHANGED <<walked, config, prev, differ, cleaning, env, now, storage, call, locals, steps,
                   failedAt, mutated, pre, result, rb, ncalls, nedits>>

\* Half an hour passes: every cache file gets older.
Elapse ==
    /\ pc = "idle"
    /\ \E e \in Envs : cache[e].state = "entry" /\ cache[e].age < CACHE_TTL + HalfHour
    /\ cache' = [e \in Envs |->
                    IF cache[e].state = "entry" /\ cache[e].age < CACHE_TTL + HalfHour
                    THEN [cache[e] EXCEPT !.age = @ + HalfHour] ELSE cache[e]]
    /\ UNCHANGED <<rooted, walked, config, prev, differ, scanned, cleaning, env, now, storage, pc, call, locals,
                   steps, failedAt, mutated, pre, result, raised, rb, op, ncalls, nedits>>

\* ---------------------------------- ProjectScanner._scan_directory, in full
\* ProjectScanner._is_non_code_dir: a name starting with ".", a name ending
\* with the rest of a "*" pattern, or a name of NON_CODE_DIRS.
_is_non_code_dir(name) ==
    name.base \in Hidden \/ name.base \in DenySuffix \/ name.base \in DenyExact

\* Mutant: the kinds are tried from the end of the dict.
LastKind(markers) ==
    PROJECT_MARKERS[CHOOSE i \in DOMAIN PROJECT_MARKERS :
        /\ PROJECT_MARKERS[i] \in markers
        /\ \A j \in (i + 1)..Len(PROJECT_MARKERS) : PROJECT_MARKERS[j] \notin markers]

\* The loops of lines 246-254: the kinds are tried in the order of the dict
\* and the first of which a marker file is found decides.
FirstKind(markers) ==
    PROJECT_MARKERS[CHOOSE i \in DOMAIN PROJECT_MARKERS :
        /\ PROJECT_MARKERS[i] \in markers
        /\ \A j \in 1..(i - 1) : PROJECT_MARKERS[j] \notin markers]

\* `| head -n` and `| tail -n` on the lines of a listing.
HeadLines(lines, n) == SubSeq(lines, 1, IF Len(lines) < n THEN Len(lines) ELSE n)
TailLines(lines, n) ==
    IF Len(lines) <= n THEN lines ELSE SubSeq(lines, Len(lines) - n + 1, Len(lines))

\* A line of find: the directory it names, with its path below the root;
\* `self` marks the line of the starting directory.
FindLine(self, path, dir) == [path |-> path, self |-> self, dir |-> dir]

\* The lines for the subdirectories of dir, in order.
SubLines(dir, rel) ==
    [i \in DOMAIN dir.subs |->
        FindLine(FALSE, Append(rel, dir.subs[i].name), dir.subs[i])]

\* `find <dir> -maxdepth 1 -type d -not -name '.*'`: the directory and its
\* subdirectories, without those whose name starts with ".".
FindSubdirs(dir, rel) ==
    SelectSeq(<<FindLine(TRUE, rel, dir)>> \o SubLines(dir, rel),
              LAMBDA l : l.dir.name.base \notin Hidden)

\* `find <dir> -maxdepth 2 -type d`: the directory, then each subdirectory
\* followed by its own subdirectories.
RECURSIVE FindBelow(_, _)
FindBelow(lines, i) ==
    IF i > Len(lines) THEN <<>>
    ELSE <<lines[i]>> \o SubLines(lines[i].dir, lines[i].path) \o FindBelow(lines, i + 1)

FindTwoLevels(dir, rel) == <<FindLine(TRUE, rel, dir)>> \o FindBelow(SubLines(dir, rel), 1)

\* ProjectScanner._analyze_component: the component is recorded, and the
\* first 50 lines of the two-level listing are sorted by their last name
\* into the non-code and the code directories; the component's own path is
\* a code directory unless it is the root.
_analyze_component(dir, rel, kind, st) ==
    LET lines == HeadLines(FindTwoLevels(dir, rel), HEAD_LINES)
        below == {lines[i] : i \in {j \in DOMAIN lines : ~lines[j].self}}
    IN [st EXCEPT
          !.components = Append(@, [path |-> rel, type |-> kind]),
          !.all_non_code_dirs = @ \cup {l.path : l \in {m \in below : _is_non_code_dir(m.dir.name)}},
          !.all_code_dirs = @ \cup {l.path : l \in {m \in below : ~_is_non_code_dir(m.dir.name)}}
                              \cup (IF rel # <<>> THEN {rel} ELSE {})]

\* What a sequence of walks adds to a structure: each walk appends its
\* components and adds its directories, without reading what is there.
RECURSIVE ComponentsOf(_, _)
ComponentsOf(parts, i) ==
    IF i > Len(parts) THEN <<>> ELSE parts[i].components \o ComponentsOf(parts, i + 1)

Merge(st, parts) ==
    [all_code_dirs |-> st.all_code_dirs \cup UNION {parts[i].all_code_dirs : i \in DOMAIN parts},
     all_non_code_dirs |->
         st.all_non_code_dirs \cup UNION {parts[i].all_non_code_dirs : i \in DOMAIN parts},
     called |-> st.called \cup UNION {parts[i].called : i \in DOMAIN parts},
     components |-> st.components \o ComponentsOf(parts, 1),
     visited |-> st.visited \cup UNION {parts[i].visited : i \in DOMAIN parts}]

\* ProjectScanner._scan_directory(ctx, rel_path, structure, depth) on a
\* directory tree, as what the call adds to the structure: nothing beyond
\* depth 5; a directory with a marker file is a component and is not
\* descended into; otherwise the last 20 lines of the listing of
\* subdirectories are gone through in order, a deny-listed name being
\* recorded as non-code and any other directory scanned in turn.
RECURSIVE _scan_directory_at(_, _, _), ScanLine(_, _)
_scan_directory_at(dir, rel, depth) ==
    LET called == [NoStructure EXCEPT !.called = {rel}]
        seen == [called EXCEPT !.visited = {rel}]
        lines == TailLines(FindSubdirs(dir, rel), TAIL_LINES)
    IN IF depth > MAX_DEPTH THEN called
       ELSE IF dir.markers # {}
       THEN _analyze_component(dir, rel, FirstKind(dir.markers), seen)
       ELSE Merge(seen, [i \in DOMAIN lines |-> ScanLine(lines[i], depth)])

ScanLine(l, depth) ==
    IF l.self THEN NoStructure
    ELSE IF _is_non_code_dir(l.dir.name)
    THEN [NoStructure EXCEPT !.all_non_code_dirs = {l.path}]
    ELSE _scan_directory_at(l.dir, l.path, depth + 1)

\* The directory trees the walk is run on.  Below the root: a run of empty
\* directories pad1..padk; "svc" with any markers, holding a node project
\* "inner" and a "build" directory; optionally "node_modules" (holding a
\* package with its package.json), "pkg.egg-info", ".cache", and a chain of
\* plain directories with a node project at its end.
Pads(k) == [i \in 1..k |-> Dir(Name("pad", i), {}, <<>>)]

RECURSIVE Chain(_, _)
Chain(len, bottom) ==
    IF len = 0 THEN bottom ELSE Dir(Name("level", len), {}, <<Chain(len - 1, bottom)>>)

Leaf(name) == Dir(Name(name, 0), {}, <<Dir(Name("app", 0), {"node"}, <<>>),
                                       Dir(Name("node_modules", 0), {}, <<>>)>>)

Svc(markers) ==
    Dir(Name("svc", 0), markers,
        <<Dir(Name("inner", 0), {"node"}, <<>>), Dir(Name("build", 0), {}, <<>>)>>)

Optional == {"node_modules", "pkg.egg-info", ".cache", "chain"}

Special(which, len) ==
    CASE which = "node_modules" ->
           Dir(Name("node_modules", 0), {}, <<Dir(Name("dep", 0), {"node"}, <<>>)>>)
      [] which = "pkg.egg-info" -> Dir(Name("pkg.egg-info", 0), {}, <<>>)
      [] which = ".cache" -> Dir(Name(".cache", 0), {}, <<>>)
      [] which = "chain" -> Chain(len, Leaf("leaf"))

MarkerSets(first) == {{}, {first}, {first, "python"}, {"php", "node"}}
PadCounts == {0, TAIL_LINES - 2, TAIL_LINES}
ChainLengths == {MAX_DEPTH - 1, MAX_DEPTH}

Specials(has, markers, len) ==
    <<Svc(markers)>>
    \o SelectSeq(<<Special("node_modules", len), Special("pkg.egg-info", len),
                   Special(".cache", len), Special("chain", len)>>,
                 LAMBDA d : \/ d.name.base \in has
                            \/ d.name.base = "level" /\ "chain" \in has)

DirTree(root, pads, first, has, markers, len) ==
    Dir(Name("", 0), root,
        IF first THEN Pads(pads) \o Specials(has, markers, len)
        ELSE Specials(has, markers, len) \o Pads(pads))

\* One walk of _scan_directory from the root of a tree.
ScanTree(tree) ==
    /\ walked = NoWalk
    /\ walked' = [structure |-> _scan_directory_at(tree, <<>>, 0),
                  tree |-> tree]
    /\ UNCHANGED <<rooted, config, prev, scanner, differ, cleaning, env, now, storage, pc, call,
                   locals, steps, failedAt, mutated, pre, result, raised, rb, op,
                   ncalls, nedits>>

NextWalk ==
    \E root \in {{}, {"go"}}, pads \in PadCounts, first \in BOOLEAN,
       has \in SUBSET Optional, markers \in MarkerSets("go"), len \in ChainLengths :
        ScanTree(DirTree(root, pads, first, has, markers, len))

WalkSpec == Init /\ [][NextWalk]_vars

\* ------------------------------------------------- DiffService.compare
\* Lines 84-100 of _rsync_diff: how a line is classified.
Tag(line) ==
    IF line.item = "*deleting" THEN "DEL"
    ELSE IF line.item \in {">f+++++++++", "cd+++++++++"} THEN "ADD"
    ELSE "MOD"

Tagged(lines, tag) == {l \in lines : Tag(l) = tag}

\* DiffService._rsync_diff: the detail lines under the header and the
\* separator, and the counts (created, modified, deleted).
_rsync_diff(e1, e2, lines) ==
    [detail |-> [header |-> <<e1, e2>>, separator |-> TRUE,
                 lines |-> {<<Tag(l), l.path>> : l \in lines}],
     stats |-> <<Cardinality(Tagged(lines, "ADD")), Cardinality(Tagged(lines, "MOD")),
                 Cardinality(Tagged(lines, "DEL"))>>]

\* The DiffReport compare returns.
DiffReport(e1, e2, stats, name) ==
    [env1 |-> e1, env2 |-> e2,
     has_diff |-> \E i \in 1..3 : stats[i] > 0,
     stats |-> stats, output_path |-> name]

\* The directories whose modification times differ between the two
\* environments: any, unless both names are the same environment.
Touched(e1, e2) == IF e1 = e2 THEN {{}} ELSE SUBSET Dirs

\* DiffService.compare(env1, env2): both names are looked up, the dry run
\* is made, and the report is written to diff-<env1>-vs-<env2>-<second>.txt
\* unless the run exited fatally (then _rsync_diff raises).
Diff(env1, env2) ==
    /\ pc = "idle"
    /\ ncalls < MaxCalls
    /\ ncalls' = ncalls + 1
    /\ IF _ctx(env1).raises \/ _ctx(env2).raises
       THEN /\ raised' = "ValueError:env_not_configured"
            /\ diffed' = [NoDiff EXCEPT !.env1 = env1, !.env2 = env2, !.before = reports]
            /\ UNCHANGED reports
       ELSE \E run \in RsyncRuns(env1, env2), touched \in Touched(env1, env2) :
            LET lines == ItemizedLines(files[env1], files[env2], run[2], touched)
                diff == _rsync_diff(env1, env2, lines)
                name == <<env1, env2, now>>
            IN IF IsFatal(run[1])
               THEN /\ raised' = "RuntimeError:rsync_failed"
                    /\ diffed' = [NoDiff EXCEPT !.env1 = env1, !.env2 = env2,
                                                !.exit = run[1], !.before = reports]
                    /\ UNCHANGED reports
               ELSE /\ raised' = "none"
                    /\ reports' = [reports EXCEPT ![name] = Some(diff.detail)]
                    /\ diffed' = [env1 |-> env1, env2 |-> env2, exit |-> run[1],
                                  lines |-> lines, before |-> reports,
                                  report |-> Some(DiffReport(env1, env2, diff.stats, name))]
    /\ pc' = "returned"
    /\ op' = "diff"
    /\ UNCHANGED <<rooted, walked, config, prev, scanner, cleaning, env, now, storage, call, locals, steps,
                   failedAt, mutated, pre, result, rb, nedits>>

\* History of a finished sync call: its arguments, what it returned and the
\* steps it executed.
Finished(c, r, st) == [call |-> c, result |-> r, steps |-> st]

\* cli.sync / cli.rollback after the service call: the outcome is printed
\* and the process ends (exit status 1 on a failed result or an uncaught
\* exception); nothing of the call is kept in memory.
CliExit ==
    /\ pc = "returned"
    /\ pc' = "idle"
    /\ op' = "none"
    /\ call' = NoCall
    /\ checkpoint' = None
    /\ extra_excludes' = {}
    /\ src_structure' = {}
    /\ counts' = <<0, 0>>
    /\ verified' = FALSE
    /\ steps' = <<>>
    /\ failedAt' = "none"
    /\ mutated' = FALSE
    /\ pre' = NoPre
    /\ result' = None
    /\ raised' = "none"
    /\ rb' = "none"
    /\ cleaning' = NoCleaning
    /\ prev' = IF op = "sync" THEN Some(Finished(call, result, steps)) ELSE prev
    /\ scanned' = NoScan
    /\ diffed' = NoDiff
    /\ UNCHANGED <<rooted, walked, config, cache, reports, env, now, storage, ncalls, nedits>>

\* ------------------------------------------------------- ConfigService
\* Everything but the configuration.
rest == <<rooted, walked, prev, scanner, differ, cleaning, env, now, storage, pc, call, locals, steps,
          failedAt, mutated, pre, result, raised, rb, op, ncalls, nedits>>

\* SecretManager.encrypt of a non-empty plain text: the prefix marker and
\* the Fernet ciphertext.
encrypt(s) == Str(TRUE, TRUE, s.text)

\* SecretManager.decrypt: the prefix is stripped when present and the rest
\* is decrypted, which raises RuntimeError when it is no ciphertext.
DecryptRaises(s) == ~s.sealed
decrypt(s) == Plain(s.text)

\* SecretManager.is_encrypted: the prefix marker, or for files of older
\* versions a string of more than 50 base64 characters with "=" at its end.
LooksLikeBase64(text) == text = "long-base64="
is_encrypted(s) == s.prefix \/ LooksLikeBase64(s.text)

\* GitLabConfig.from_dict: the token is decrypted when it is recognised as
\* encrypted, and _encrypted records that it was.
GitLabConfig_from_dict(stored) ==
    [token |-> IF is_encrypted(stored) THEN decrypt(stored) ELSE stored,
     encrypted |-> is_encrypted(stored)]

\* GitLabConfig.to_dict: the token is encrypted unless _encrypted is set.
GitLabConfig_to_dict(g, enc) ==
    IF enc /\ ~g.encrypted THEN encrypt(g.token) ELSE g.token

\* ConfigData.from_dict and ConfigData.to_dict.
ConfigData_from_dict(file) ==
    [path |-> file.path,
     gitlab |-> IF file.gitlab = None THEN None
                ELSE Some(GitLabConfig_from_dict(file.gitlab[1]))]

ConfigData_to_dict(c, enc) ==
    [path |-> c.path,
     gitlab |-> IF c.gitlab = None THEN None
                ELSE Some(GitLabConfig_to_dict(c.gitlab[1], enc)),
     written_by |-> "save"]

\* ConfigService.load: the file is parsed; a token that is taken for
\* encrypted and cannot be decrypted raises RuntimeError.
ConfigLoad ==
    LET g == cfgfile.gitlab
        raising == g # None /\ is_encrypted(g[1]) /\ DecryptRaises(g[1])
        loaded == ConfigData_from_dict(cfgfile)
    IN /\ cfg' = IF raising THEN None ELSE Some(loaded)
       /\ cfgop' = [name |-> "load",
                    raised |-> IF raising THEN "RuntimeError" ELSE "none",
                    token |-> IF raising \/ g = None THEN None
                              ELSE Some(loaded.gitlab[1].token)]
       /\ UNCHANGED <<cfgfile, rest>>

\* ConfigData.set_env on the loaded configuration.
ConfigSetEnv(e, path) ==
    /\ cfg # None
    /\ cfg' = Some([cfg[1] EXCEPT !.path[e] = path])
    /\ cfgop' = [name |-> "set_env", raised |-> "none", token |-> None]
    /\ UNCHANGED <<cfgfile, rest>>

\* ConfigData.set_gitlab on the loaded configuration: a new GitLabConfig,
\* whose _encrypted is False.
ConfigSetGitlab(token) ==
    /\ cfg # None
    /\ cfg' = Some([cfg[1] EXCEPT !.gitlab = Some([token |-> Plain(token),
                                                    encrypted |-> FALSE])])
    /\ cfgop' = [name |-> "set_gitlab", raised |-> "none", token |-> None]
    /\ UNCHANGED <<cfgfile, rest>>

\* ConfigService.save(config) with the default encrypt=True.
ConfigSave ==
    /\ cfg # None
    /\ cfgfile' = ConfigData_to_dict(cfg[1], TRUE)
    /\ cfgop' = [name |-> "save", raised |-> "none", token |-> None]
    /\ UNCHANGED <<cfg, rest>>

\* Any sequence of load, set-env, set-gitlab and save.
NextConfig ==
    \/ ConfigLoad
    \/ \E e \in Envs, path \in Roots : ConfigSetEnv(e, path)
    \/ \E token \in Secrets \ {"<your-token>"} : ConfigSetGitlab(token)
    \/ ConfigSave

ConfigSpec == Init /\ [][NextConfig]_vars

\* ------------------------------------------------------- the environment
\* An operator changes, creates or deletes a file of an environment.
Edit(e, p, c) ==
    /\ pc = "idle"
    /\ nedits < MaxEdits
    /\ files[e][p] # c
    /\ nedits' = nedits + 1
    /\ files' = [files EXCEPT ![e][p] = c]
    /\ UNCHANGED <<others, cleaning, repo, head, now, storage, pc, call, locals, steps, failedAt,
                   mutated, pre, result, raised, rb, op, ncalls>>

\* An operator commits the working tree of a repository.
GitCommit(e) ==
    /\ pc = "idle"
    /\ repo[e]
    /\ dirty(e)
    /\ head' = [head EXCEPT ![e] = files[e]]
    /\ UNCHANGED <<others, cleaning, files, repo, now, storage, pc, call, locals, steps, failedAt,
                   mutated, pre, result, raised, rb, op, ncalls, nedits>>

\* A second passes (time.strftime has a resolution of one second).
Tick ==
    /\ pc = "idle"
    /\ now < MaxTime
    /\ now' = now + 1
    /\ UNCHANGED <<others, cleaning, env, storage, pc, call, locals, steps, failedAt, mutated,
                   pre, result, raised, rb, op, ncalls, nedits>>

\* One call of SafeSyncService.sync, from any start state and with any
\* arguments, followed to its return.
Next ==
    \/ \E source, target \in EnvNames, strategy \in Strategies,
          backup, verify, auto_commit, code_only \in BOOLEAN :
         SyncCall(source, target, strategy, backup, verify, auto_commit, code_only, None)
    \/ StructureScan
    \/ DirtyCheck
    \/ Checkpoint
    \/ Transfer
    \/ Verify
    \/ AutoCommit

Spec == Init /\ [][Next]_vars

\* The external command a step runs, if it runs one: "rsync" is started
\* with subprocess.run by the service itself, "client" goes through
\* SSHClientWrapper.run of the environment it is run for.
CommandOf(at, c) ==
    CASE at = "scan" /\ c.code_only -> <<"client", c.source>>
      [] at = "dirty" /\ c.strategy = "safe" -> <<"client", c.target>>
      [] at = "checkpoint" /\ c.backup -> <<"rsync", c.target>>
      [] at = "transfer" -> <<"rsync", c.target>>
      [] at = "verify" /\ c.verify -> <<"rsync", c.target>>
      [] at = "commit" /\ c.auto_commit -> <<"client", c.target>>
      [] OTHER -> <<"none", c.target>>

\* The commands that are run with a timeout: only SSHClientWrapper._run_remote
\* passes one (connect and exec_command, timeout=600); _run_local and the
\* rsync calls use subprocess.run without a timeout argument.
HasTimeout(cmd) == cmd[1] = "client" /\ is_remote(cmd[2])

\* The command of the current step never returns by itself.  With a
\* timeout the wait ends in an exception (the "exec_error" outcome of the
\* step); without one the call stays blocked in subprocess.run.
Hang ==
    /\ pc \in {"scan", "dirty", "checkpoint", "transfer", "verify", "commit"}
    /\ CommandOf(pc, call)[1] # "none"
    /\ ~HasTimeout(CommandOf(pc, call))
    /\ pc' = "blocked"
    /\ UNCHANGED <<others, cleaning, env, now, storage, call, locals, steps, failedAt,
                   mutated, pre, result, raised, rb, op, ncalls, nedits>>

\* One sync call whose commands may hang; a call that is not blocked goes
\* on to its next step.
NextBlocking == Next \/ Hang

BlockingSpec == Init /\ [][NextBlocking]_vars /\ WF_vars(NextBlocking)

\* One call of sync with code_only and a component filter, followed to its
\* return: `envsync sync <src> <dst> --code-only --component <kind>`.
NextFiltered ==
    \/ \E source, target \in EnvNames, strategy \in Strategies,
          backup, verify, auto_commit \in BOOLEAN, components \in Filters :
         SyncCall(source, target, strategy, backup, verify, auto_commit, TRUE, components)
    \/ StructureScan
    \/ DirtyCheck
    \/ Checkpoint
    \/ Transfer
    \/ Verify
    \/ AutoCommit

FilteredSpec == Init /\ [][NextFiltered]_vars

\* One verified sync call between environments in which an operator may
\* have put a file that passes the quick check against the other side.
NextQuick ==
    \/ \E e \in Envs, p \in Paths : Edit(e, p, Twin)
    \/ \E source, target \in Envs, strategy \in Strategies, code_only \in BOOLEAN :
         SyncCall(source, target, strategy, FALSE, TRUE, FALSE, code_only, None)
    \/ StructureScan
    \/ DirtyCheck
    \/ Checkpoint
    \/ Transfer
    \/ Verify
    \/ AutoCommit

QuickSpec == Init /\ [][NextQuick]_vars

\* The same sync call run again and again, each run in a process of its
\* own: `envsync sync E E` with the same options.
NextRepeated ==
    \/ \E e \in EnvNames, strategy \in Strategies,
          backup, verify, auto_commit, code_only \in BOOLEAN :
         /\ prev # None =>
               prev[1].call = [source |-> e, target |-> e, strategy |-> strategy,
                               backup |-> backup, verify |-> verify,
                               auto_commit |-> auto_commit, code_only |-> code_only,
                               components |-> None, checkpoint_id |-> None]
         /\ SyncCall(e, e, strategy, backup, verify, auto_commit, code_only, None)
    \/ StructureScan
    \/ DirtyCheck
    \/ Checkpoint
    \/ Transfer
    \/ Verify
    \/ AutoCommit
    \/ CliExit

RepeatedSpec == Init /\ [][NextRepeated]_vars

\* The scanner's operations, called one after the other while time passes.
NextScanner ==
    \/ \E e \in EnvNames, force \in BOOLEAN : Scan(e, force)
    \/ \E env1, env2 \in EnvNames : CompareStructures(env1, env2)
    \/ Elapse
    \/ CliExit

ScannerSpec == Init /\ [][NextScanner]_vars

\* `envsync diff a b`, called again and again while operators change the
\* environments and time passes.
NextDiff ==
    \/ \E env1, env2 \in EnvNames : Diff(env1, env2)
    \/ CliExit
    \/ \E e \in Envs, p \in Paths, c \in Contents : Edit(e, p, c)
    \/ Tick

DiffSpec == Init /\ [][NextDiff]_vars

\* The checkpoint manager's operations, called one after the other while
\* operators change the environments and time passes.
NextCheckpoints ==
    \/ \E e \in Envs : CreateCheckpoint(e)
    \/ \E target \in EnvNames, id \in {None} \cup {Some(t) : t \in 0..MaxTime} :
         Rollback(target, id)
    \/ CliExit
    \/ \E e \in Envs, p \in Paths, c \in Contents : Edit(e, p, c)
    \/ \E e \in Envs : GitCommit(e)
    \/ Tick

CheckpointSpec == Init /\ [][NextCheckpoints]_vars

\* A checkpoint as a successful _create_checkpoint leaves it when the
\* backup transfer exits 0 and git answers.
IntactBackup(e) == Some(RsyncApply(InitFiles[e], EmptyTree, Paths, {}, FALSE))
IntactRecord(e, t) == Some(SyncCheckpoint(t, e, CapturedCommit(e, "none")))

\* A service constructed over a checkpoint directory that earlier runs have
\* filled: any set of intact checkpoints, none newer than the clock.
RetentionInit ==
    /\ files = InitFiles
    /\ repo \in [Envs -> BOOLEAN]
    /\ head \in {h \in InitHeads : \A e \in Envs : ~repo[e] => h[e] = InitFiles[e]}
    /\ now = MaxTime
    /\ \E X \in SUBSET CpNames :
         /\ backups = [n \in CpNames |-> IF n \in X THEN IntactBackup(n[1]) ELSE None]
         /\ metas = [n \in CpNames |-> IF n \in X THEN IntactRecord(n[1], n[2]) ELSE None]
         /\ captured = [n \in CpNames |-> IF n \in X THEN Some(Captured(InitFiles[n[1]], "ok"))
                                                      ELSE None]
    /\ pc = "idle"
    /\ call = NoCall
    /\ checkpoint = None
    /\ extra_excludes = {}
    /\ src_structure = {}
    /\ counts = <<0, 0>>
    /\ verified = FALSE
    /\ steps = <<>>
    /\ failedAt = "none"
    /\ mutated = FALSE
    /\ pre = NoPre
    /\ op = "none"
    /\ result = None
    /\ raised = "none"
    /\ rb = "none"
    /\ ncalls = 0
    /\ nedits = 0
    /\ cleaning = NoCleaning
    /\ prev = None
    /\ cache = [e \in Envs |-> Unknown]
    /\ scanned = NoScan
    /\ reports = [n \in ReportNames |-> None]
    /\ diffed = NoDiff
    /\ cfgfile = DefaultConfig
    /\ cfg = None
    /\ cfgop = NoConfigOp
    /\ walked = NoWalk
    /\ rooted = NoRooted

\* The checkpoint manager over an existing checkpoint directory: creation,
\* cleanup (which may be killed and run again) and rollback.
NextRetention ==
    \/ \E e \in Envs : CreateCheckpoint(e)
    \/ \E e \in EnvNames, keep \in Keeps : CleanupCall(e, keep)
    \/ CleanupRmtree
    \/ CleanupUnlink
    \/ CleanupReturn
    \/ Interrupt
    \/ \E target \in EnvNames, id \in {None} \cup {Some(t) : t \in 0..MaxTime} :
         Rollback(target, id)
    \/ CliExit

RetentionSpec == RetentionInit /\ [][NextRetention]_vars

\* Cleanup by one process while another process rolls back: the cleanup
\* proceeds entry by entry and a rollback may start between any two of its
\* steps; the environments are edited before.
NextConcurrent ==
    \/ \E e \in Envs, p \in Paths, c \in Contents : Edit(e, p, c)
    \/ \E e \in Envs, keep \in Keeps : CleanupCall(e, keep)
    \/ CleanupRmtreeEntry
    \/ CleanupRmtree
    \/ CleanupUnlink
    \/ CleanupReturn
    \/ \E target \in EnvNames, id \in {None} \cup {Some(t) : t \in 0..MaxTime} :
         RollbackDuringCleanup(target, id)

\* The checkpoint directory as earlier runs have filled it, over
\* environments that are plain directories (the hard reset of rollback is
\* the subject of C12 and C19).
ConcurrentInit == RetentionInit /\ \A e \in Envs : ~repo[e]

ConcurrentSpec == ConcurrentInit /\ [][NextConcurrent]_vars

\* The environment whose path the operator changes and whose structure is
\* asked for.
Moved == {"dev"}

\* `envsync config set-env` (load, set_env, save) between scans, while time
\* passes.
NextRoots ==
    \/ ConfigLoad
    \/ \E e \in Moved, path \in Roots : ConfigSetEnv(e, path)
    \/ ConfigSave
    \/ \E e \in Moved, force \in BOOLEAN : Scan(e, force)
    \/ Elapse
    \/ CliExit

RootsSpec == Init /\ [][NextRoots]_vars

TypeOK ==
    /\ files \in [Envs -> Trees]
    /\ head \in [Envs -> Trees]
    /\ repo \in [Envs -> BOOLEAN]
    /\ now \in 0..MaxTime
    /\ pc \in {"idle", "scan", "dirty", "checkpoint", "transfer", "verify", "commit",
              "cleanup", "returned", "blocked"}
    /\ rb \in {"none", "True", "False"}


\* =================================================================== claims
\* The observations the claims are stated on.
Ran(step) == \E i \in DOMAIN steps : steps[i].step = step
Met(step, outcome) == \E i \in DOMAIN steps : steps[i] = [step |-> step, outcome |-> outcome]
InSync == op = "sync"
SyncReturned == op = "sync" /\ pc = "returned"
Failed == result # None /\ ~result[1].success
Done == result # None /\ result[1].success
StorageUntouched == backups = pre.backups /\ metas = pre.metas
TargetUntouched == call.target \in Envs => files[call.target] = pre.files

\* The checkpoint of this call is complete: its record is persisted and its
\* backup location exists.
CheckpointComplete ==
    /\ checkpoint # None
    /\ metas[checkpoint[1].backup_path] = checkpoint
    /\ backups[checkpoint[1].backup_path] # None

\* C1: under strategy=safe, when the status of a version-controlled target
\* reports uncommitted changes, sync returns success=false with the
\* dirty-target error and no checkpoint reference, creates no backup and no
\* metadata record, and starts no transfer: the target's files are unchanged.
C1_DirtyTargetAborts ==
    (InSync /\ Met("DirtyCheck", "dirty")) =>
        /\ call.strategy = "safe"
        /\ pc = "returned"
        /\ raised = "none"
        /\ Failed
        /\ result[1].error = "dirty_target"
        /\ result[1].checkpoint = None
        /\ StorageUntouched
        /\ TargetUntouched
        /\ ~mutated
        /\ ~Ran("Checkpoint") /\ ~Ran("Transfer")

C1_Witness ==
    /\ SyncReturned
    /\ Met("DirtyCheck", "dirty")
    /\ call.backup
    /\ repo[call.target] /\ dirty(call.target)

\* C2: under strategy=safe, when the repository check reports that the
\* target is not a repository, sync does not fail at DirtyCheck.
C2_NonRepoTargetPasses ==
    (InSync /\ Met("DirtyCheck", "RuntimeError:not_a_repo")) => failedAt # "DirtyCheck"

\* C3: with backup=true the checkpoint (backup copy and persisted record)
\* is complete before the first command that can modify the target is
\* started, and nothing before that command, checkpoint creation included,
\* changes the target's files.
C3_CheckpointBeforeMutation ==
    (InSync /\ call.backup) =>
        /\ (pc = "transfer" \/ mutated) => CheckpointComplete
        /\ (pc = "transfer" /\ Met("Checkpoint", "ok")) =>
              \A p \in Paths : ~RSYNC_EXCLUDES(p) =>
                  BackupTree(checkpoint[1].backup_path)[p] = files[call.target][p]
        /\ ~mutated => TargetUntouched

C3_Witness ==
    /\ InSync /\ call.backup /\ mutated
    /\ ~TargetUntouched
    /\ CheckpointComplete

\* C4: when checkpoint creation fails (fatal exit of the backup transfer),
\* sync returns success=false with an error, Transfer, Verify and AutoCommit
\* do not run, the target's files are unchanged and the result carries no
\* checkpoint reference.
C4_CheckpointFailureAborts ==
    (InSync /\ Met("Checkpoint", "fatal")) =>
        /\ pc = "returned"
        /\ Failed
        /\ result[1].error # "none"
        /\ result[1].checkpoint = None
        /\ ~Ran("Transfer") /\ ~Ran("Verify") /\ ~Ran("AutoCommit")
        /\ ~mutated
        /\ TargetUntouched
        /\ metas = pre.metas

C4_Witness ==
    /\ SyncReturned
    /\ Met("Checkpoint", "fatal")
    /\ call.verify /\ call.auto_commit

\* C5: when Transfer exits fatally after a checkpoint was made, sync returns
\* success=false, the result references that checkpoint, its backup and its
\* record stay in storage (list returns it, find resolves its id), nothing
\* runs after Transfer (no restore, no Verify, no AutoCommit).
C5_TransferFailureKeepsCheckpoint ==
    (InSync /\ Met("Transfer", "fatal") /\ Ran("Checkpoint")) =>
        /\ pc = "returned"
        /\ Failed
        /\ CheckpointComplete
        /\ result[1].checkpoint = checkpoint
        /\ checkpoint[1] \in ListedCheckpoints(call.target)
        /\ \A l \in list_checkpoints(call.target) :
              _find_checkpoint(l, Some(checkpoint[1].timestamp)) = checkpoint
        /\ steps[Len(steps)].step = "Transfer"
        /\ ~Ran("Verify") /\ ~Ran("AutoCommit")

C5_Witness ==
    /\ SyncReturned
    /\ Met("Transfer", "fatal") /\ Ran("Checkpoint")
    /\ ~TargetUntouched


\* The pipeline of the orchestrator and the flag that asks for each step.
Pipeline == <<"StructureScan", "DirtyCheck", "Checkpoint", "Transfer", "Verify", "AutoCommit">>
Pos(step) == CHOOSE i \in DOMAIN Pipeline : Pipeline[i] = step
Asked(step) ==
    CASE step = "StructureScan" -> call.code_only
      [] step = "DirtyCheck" -> call.strategy = "safe"
      [] step = "Checkpoint" -> call.backup
      [] step = "Transfer" -> TRUE
      [] step = "Verify" -> call.verify
      [] step = "AutoCommit" -> call.auto_commit
AbortedBefore(step) == failedAt # "none" /\ Pos(failedAt) < Pos(step)

\* The shape of a finished run: the executed steps are in pipeline order
\* without repetition, a step ran iff its flag asked for it and no earlier
\* step failed fatally, a failed step is the last one, and the run is Done
\* iff no step failed.
PipelineShape ==
    /\ \A i, j \in DOMAIN steps : i < j => Pos(steps[i].step) < Pos(steps[j].step)
    /\ \A k \in DOMAIN Pipeline :
          Ran(Pipeline[k]) <=> (Asked(Pipeline[k]) /\ ~AbortedBefore(Pipeline[k]))
    /\ failedAt # "none" => steps[Len(steps)].step = failedAt
    /\ Done <=> failedAt = "none"
    /\ Done => Ran("Transfer")

\* C6: the steps of every sync call form, in order, a subsequence of
\* StructureScan, DirtyCheck, Checkpoint, Transfer, Verify, AutoCommit, each
\* optional step run iff its flag is set (and the run got that far), no step
\* twice, none after a fatal failure, and the call ends in Done
\* (success=true) or Failed (success=false).
C6_Pipeline ==
    SyncReturned => ((Done \/ Failed) /\ PipelineShape)

\* C7: a verification that finds differences (or whose dry run is unusable)
\* leaves the sync successful with verified=false and raises nothing; with
\* the verify flag off the result has verified=false.
C7_MismatchIsNotFailure ==
    SyncReturned =>
        /\ (Met("Verify", "mismatch") \/ Met("Verify", "fatal")) =>
              /\ Done
              /\ ~result[1].verified
              /\ raised = "none"
              /\ failedAt = "none"
        /\ (result # None /\ ~call.verify) => ~result[1].verified

C7_Witness ==
    /\ SyncReturned
    /\ Met("Verify", "mismatch")
    /\ Done /\ ~result[1].verified

\* The ways the AutoCommit step can fail.
CommitFailures ==
    {"RuntimeError:not_a_repo", "RuntimeError:git_failed", "RuntimeError:known_hosts",
     "SSHException", "commit_failed"}

\* C8: whatever happens inside AutoCommit, the call returns the result the
\* run had earned before the step: success, the counts, the verified flag
\* and the checkpoint reference are those of the run without auto-commit.
C8_AutoCommitNeverChangesOutcome ==
    (InSync /\ Ran("AutoCommit")) =>
        /\ pc = "returned"
        /\ raised = "none"
        /\ failedAt = "none"
        /\ result = Some(SyncResult(TRUE, call, checkpoint, counts, verified, "none"))

C8_Witness ==
    /\ SyncReturned
    /\ \E f \in CommitFailures : Met("AutoCommit", f)
    /\ Done

\* C9: every call of sync returns a SyncResult (with an error text when
\* success=false) instead of raising, also for a name that is not a
\* configured environment, and then nothing is mutated.
C9_SyncAlwaysReturnsResult ==
    SyncReturned =>
        /\ raised = "none"
        /\ Done \/ (Failed /\ result[1].error # "none")
        /\ (call.source \notin Envs \/ call.target \notin Envs) =>
              (StorageUntouched /\ ~mutated)

\* C10: rollback always returns a boolean and never raises, for every input.
C10_RollbackNeverRaises ==
    (op = "rollback" /\ pc = "returned") =>
        /\ raised = "none"
        /\ rb \in {"True", "False"}

\* The part of C6 that concerns the calls that return a result.
PipelineShapeOfResults == (SyncReturned /\ result # None) => PipelineShape

\* ------------------------------------------------ the checkpoint manager
RollbackReturned == op = "rollback" /\ pc = "returned"

\* The checkpoints that were created for environment e, among the records m.
OwnIn(m, e) == {m[n][1] : n \in {k \in CpNames : m[k] # None /\ m[k][1].env_name = e}}

\* The records of other environments that list(e) reads as well.
ForeignIn(m, e) ==
    {m[n][1] : n \in {k \in CpNames : /\ m[k] # None
                                       /\ GlobMatches(e, k)
                                       /\ m[k][1].env_name # e}}

\* The rollback asked for a checkpoint the environment does not have.
NoSuchCheckpoint ==
    IF call.checkpoint_id = None
    THEN OwnIn(pre.metas, call.target) = {}
    ELSE \A cp \in OwnIn(pre.metas, call.target) : cp.timestamp # call.checkpoint_id[1]

RollbackDidNothing ==
    /\ rb = "False"
    /\ checkpoint = None
    /\ ~mutated
    /\ ~Ran("Restore") /\ ~Ran("Reset")
    /\ files[call.target] = pre.files
    /\ StorageUntouched

\* C11: a rollback of a configured environment that asks for an id none of
\* the environment's checkpoints has, or for the latest when the
\* environment has no checkpoint, returns False, starts no transfer and no
\* reset, and leaves the files and the storage as they were.
C11_MissingCheckpointFails ==
    (RollbackReturned /\ raised = "none" /\ NoSuchCheckpoint) => RollbackDidNothing

\* The part of C11 that concerns listings without records of another
\* environment.
C11_AmongOwnRecords ==
    (RollbackReturned /\ raised = "none" /\ NoSuchCheckpoint
       /\ ForeignIn(pre.metas, call.target) = {}) => RollbackDidNothing

C11_AmongOwnWitness ==
    /\ RollbackReturned /\ raised = "none" /\ NoSuchCheckpoint
    /\ call.checkpoint_id # None
    /\ OwnIn(pre.metas, call.target) # {}


\* The rollback asked by id for a checkpoint of its target, found it, and
\* every transfer involved (the backup at creation, the restore) exited 0.
RoundTrip ==
    /\ RollbackReturned /\ raised = "none"
    /\ call.checkpoint_id # None
    /\ checkpoint # None
    /\ checkpoint[1].env_name = call.target
    /\ captured[checkpoint[1].backup_path] # None
    /\ captured[checkpoint[1].backup_path][1].exit = "ok"
    /\ Met("Restore", "ok")
    /\ rb = "True"

\* Every file outside the standard excludes is as it was at checkpoint time.
AsCaptured ==
    \A p \in Paths : ~RSYNC_EXCLUDES(p) =>
        files[call.target][p] = captured[checkpoint[1].backup_path][1].files[p]

\* C12: create(E) followed, after any changes to E, by rollback(E, thatId)
\* leaves every file of E outside the standard excludes with the content it
\* had at checkpoint time, whether or not E is version-controlled or dirty.
C12_RoundTrip == RoundTrip => AsCaptured

\* The part of C12 that concerns checkpoints for which no hard reset runs
\* (no revision captured, or git not usable at rollback time).
C12_RoundTripWithoutReset == (RoundTrip /\ ~Met("Reset", "ok")) => AsCaptured

C12_WithoutResetWitness ==
    /\ RoundTrip /\ ~Met("Reset", "ok")
    /\ pre.files # files[call.target]


\* What list(e) reads from the records m.
ListedIn(m, e) ==
    {m[n][1] : n \in {k \in CpNames : m[k] # None /\ GlobMatches(e, k)}}

Min(a, b) == IF a <= b THEN a ELSE b

\* An uninterrupted cleanup has returned.
CleanupReturned == op = "cleanup" /\ pc = "returned"

\* The retention contract between the storage before (b0, m0) and after
\* (b1, m1) a cleanup(e, keep): list(e) has min(keep, original length)
\* elements, all of them original and none older than a removed one; the
\* backup and the record of every removed checkpoint are gone and those of
\* the retained ones are as before.
Retained(b0, m0, b1, m1, e, keep) ==
    LET before == ListedIn(m0, e)
        after == ListedIn(m1, e)
    IN /\ Cardinality(after) = Min(keep, Cardinality(before))
       /\ after \subseteq before
       /\ \A kept \in after, gone \in before \ after : kept.timestamp >= gone.timestamp
       /\ \A gone \in before \ after :
            b1[gone.backup_path] = None /\ m1[gone.backup_path] = None
       /\ \A kept \in after :
            /\ m1[kept.backup_path] = m0[kept.backup_path]
            /\ b1[kept.backup_path] = b0[kept.backup_path]

\* C13: cleanup(E, keep=K) leaves list(E) with min(K, original length)
\* elements, the K most recent by timestamp, removes the backup and the
\* record of every older checkpoint and leaves the retained ones untouched.
C13_Retention ==
    CleanupReturned =>
        Retained(pre.backups, pre.metas, backups, metas, cleaning.env, cleaning.keep)

\* The part of C13 that concerns listings without records of another
\* environment.
C13_RetentionAmongOwnRecords ==
    (CleanupReturned /\ ForeignIn(pre.metas, cleaning.env) = {}) =>
        Retained(pre.backups, pre.metas, backups, metas, cleaning.env, cleaning.keep)

C13_AmongOwnWitness ==
    /\ CleanupReturned /\ ForeignIn(pre.metas, cleaning.env) = {}
    /\ cleaning.keep = 1
    /\ Cardinality(ListedIn(pre.metas, cleaning.env)) = 2
    /\ Cardinality(ListedIn(metas, cleaning.env)) = 1

\* The elements of a listing.
Range(l) == {l[i] : i \in DOMAIN l}

\* C14: list(env) returns exactly the checkpoints created for env whose
\* record is stored, and never a checkpoint of another environment, also
\* when one environment name is a prefix of another followed by "-".
C14_ListReturnsOwnCheckpoints ==
    \A e \in EnvNames : \A l \in list_checkpoints(e) : Range(l) = OwnIn(metas, e)


StrictlyDescending(l) == \A i, j \in DOMAIN l : i < j => l[i].timestamp > l[j].timestamp

\* The checkpoint of e that was created last: the one with the greatest
\* timestamp among those created for e.
LatestOf(e) ==
    IF OwnIn(metas, e) = {} THEN None
    ELSE Some(CHOOSE cp \in OwnIn(metas, e) :
                  \A other \in OwnIn(metas, e) : other.timestamp <= cp.timestamp)

\* C15: after any sequence of create and cleanup operations list(env) is
\* strictly descending by timestamp and find(env) without an id returns
\* the checkpoint of env created last.
C15_ListOrderedLatestFirst ==
    (pc \in {"idle", "returned"}) =>
        \A e \in Envs : \A l \in list_checkpoints(e) :
            /\ StrictlyDescending(l)
            /\ _find_checkpoint(l, None) = LatestOf(e)

\* The part of C15 that concerns listings without records of another
\* environment.
C15_AmongOwnRecords ==
    (pc \in {"idle", "returned"}) =>
        \A e \in Envs : ForeignIn(metas, e) = {} =>
            \A l \in list_checkpoints(e) :
                /\ StrictlyDescending(l)
                /\ _find_checkpoint(l, None) = LatestOf(e)

C15_AmongOwnWitness ==
    /\ CleanupReturned
    /\ cleaning.keep = 1
    /\ \E e \in Envs : /\ ForeignIn(metas, e) = {}
                       /\ Cardinality(ListedIn(pre.metas, e)) = 2
                       /\ LatestOf(e) # None
                       /\ LatestOf(e)[1].timestamp = MaxTime


\* A cleanup, first attempt or repetition, has returned.
CleanupOver == op \in {"cleanup", "retry"} /\ pc = "returned"

\* C16: a checkpoint beyond the keep limit whose backup location is missing
\* does not abort the cleanup: the call ends without an exception, the
\* record of that checkpoint is removed and every other checkpoint beyond
\* the limit has been processed (its backup and its record are gone).
C16_MissingBackupDoesNotAbort ==
    (CleanupOver /\ cleaning.missing # {}) =>
        /\ raised = "none"
        /\ cleaning.todo = <<>>
        /\ \A cp \in cleaning.missing : metas[cp.backup_path] = None
        /\ \A cp \in Range(Beyond(cleaning.listed, cleaning.keep)) :
              backups[cp.backup_path] = None /\ metas[cp.backup_path] = None

\* The part of C16 that concerns listings without records of another
\* environment.
C16_AmongOwnRecords ==
    (CleanupOver /\ cleaning.missing # {}
       /\ \A cp \in Range(cleaning.listed) : cp.env_name = cleaning.env) =>
        /\ raised = "none"
        /\ cleaning.todo = <<>>
        /\ \A cp \in cleaning.missing : metas[cp.backup_path] = None
        /\ \A cp \in Range(Beyond(cleaning.listed, cleaning.keep)) :
              backups[cp.backup_path] = None /\ metas[cp.backup_path] = None

C16_AmongOwnWitness ==
    /\ CleanupOver /\ cleaning.missing # {}
    /\ \A cp \in Range(cleaning.listed) : cp.env_name = cleaning.env
    /\ Len(Beyond(cleaning.listed, cleaning.keep)) = 2
    /\ Head(Beyond(cleaning.listed, cleaning.keep)) \in cleaning.missing


\* The loop of cleanup_checkpoints run to its end over the records todo.
RECURSIVE CleanAll(_, _, _, _)
CleanAll(b, m, todo, e) ==
    IF todo = <<>> THEN <<b, m>>
    ELSE CleanAll(Rmtree(b, Head(todo)), Unlink(m, e, Head(todo)), Tail(todo), e)

\* The storages an uninterrupted cleanup_checkpoints(e, keep) can leave when
\* started on backups b and records m.
cleanup_checkpoints(b, m, e, keep) ==
    {CleanAll(b, m, Beyond(l, keep), e) : l \in Listings(ListedIn(m, e))}

\* The actions of the loop and the function agree on uninterrupted runs.
CleanupAsComputed ==
    CleanupReturned =>
        <<backups, metas>> \in
            cleanup_checkpoints(pre.backups, pre.metas, cleaning.env, cleaning.keep)

\* A cleanup that was killed in its loop has been run again to completion.
RetryReturned == op = "retry" /\ pc = "returned"

\* What C17 says of the storage: a repeated cleanup ends where an
\* uninterrupted one would have, nothing of a non-retained checkpoint is
\* left, and one more cleanup with the same arguments changes nothing.
RetryIdempotent ==
    /\ RetryReturned =>
         /\ <<backups, metas>> \in
               cleanup_checkpoints(pre.backups, pre.metas, cleaning.env, cleaning.keep)
         /\ Retained(pre.backups, pre.metas, backups, metas, cleaning.env, cleaning.keep)
    /\ CleanupOver =>
         cleanup_checkpoints(backups, metas, cleaning.env, cleaning.keep)
             = {<<backups, metas>>}

\* C17: cleanup(env, keep) interrupted at any point and then run again to
\* completion leaves the storage as one uninterrupted cleanup(env, keep)
\* does, with no backup or record of a non-retained checkpoint left; a
\* second run of a completed cleanup changes nothing.
C17_CleanupIdempotentOnRetry == RetryIdempotent

\* The part of C17 that concerns listings without records of another
\* environment.
C17_AmongOwnRecords ==
    ((CleanupOver \/ RetryReturned) /\ ForeignIn(pre.metas, cleaning.env) = {})
        => RetryIdempotent

C17_AmongOwnWitness ==
    /\ RetryReturned
    /\ ForeignIn(pre.metas, cleaning.env) = {}
    /\ cleaning.missing # {}
    /\ Len(Beyond(cleaning.listed, cleaning.keep)) = 2


\* The rollback found a record whose backup location did not exist.
BackupMissing ==
    /\ RollbackReturned /\ raised = "none"
    /\ checkpoint # None
    /\ pre.backups[checkpoint[1].backup_path] = None

\* C18: a rollback to a checkpoint whose record exists but whose backup
\* storage is missing returns False and leaves the environment's files
\* unchanged.
C18_MissingBackupFailsCleanly ==
    BackupMissing => (rb = "False" /\ files[call.target] = pre.files)


\* C19: in a rollback whose restore transfer succeeded, a failed hard reset
\* to the checkpoint's revision is only a warning and rollback returns
\* True; for a checkpoint without a revision no reset is attempted.
C19_ResetFailureIsWarning ==
    (RollbackReturned /\ raised = "none" /\ checkpoint # None) =>
        /\ ((Met("Restore", "ok") \/ Met("Restore", "partial"))
              /\ checkpoint[1].git_commit # None
              /\ Met("Reset", "failed"))
             => rb = "True"
        /\ checkpoint[1].git_commit = None => ~Ran("Reset")
        /\ Ran("Reset") => (Met("Restore", "ok") \/ Met("Restore", "partial"))

C19_Witness ==
    /\ RollbackReturned
    /\ checkpoint # None
    /\ checkpoint[1].git_commit # None
    /\ Met("Restore", "ok")
    /\ Met("Reset", "failed")
    /\ rb = "True"


\* One step leaves the stored checkpoint n as it is, or is a step of a
\* cleanup that removes its backup or its record.
Untouched(n) ==
    \/ metas'[n] = metas[n] /\ backups'[n] = backups[n]
    \/ /\ pc = "cleanup"
       /\ metas'[n] \in {metas[n], None}
       /\ backups'[n] \in {backups[n], None}

\* C20: once created, the record of a checkpoint and the content of its
\* backup location are changed by no later operation other than a cleanup
\* that removes it; a later creation for the same environment, however soon
\* after, writes to a different id and backup location.
C20_CheckpointImmutable ==
    [][\A n \in CpNames : metas[n] # None => Untouched(n)]_vars

\* The part of C20 that concerns every operation when a second has passed
\* since the checkpoint was created.
C20_ImmutableAfterASecond ==
    [][\A n \in CpNames : (metas[n] # None /\ n[2] < now) => Untouched(n)]_vars


\* ------------------------------------------------- creation of a checkpoint
\* A step persists (writes or rewrites) the record of checkpoint n.
Persisted(n) == metas'[n] # None /\ metas'[n] # metas[n]

\* C21: whenever the creation of a checkpoint succeeds (its metadata record
\* is persisted), its backup location exists and is non-empty at that
\* moment, for every state of the environment and every non-fatal exit of
\* the backup transfer.
C21_BackupNonEmptyAtCreation ==
    [][\A n \in CpNames : Persisted(n) =>
          (backups'[n] # None /\ backups'[n][1] # EmptyTree)]_vars

\* The part of C21 that concerns the existence of the backup location.
C21_BackupExistsAtCreation ==
    [][\A n \in CpNames : Persisted(n) => backups'[n] # None]_vars

\* The part of C21 that concerns a backup transfer that exits 0 on an
\* environment holding a file outside the standard excludes.
C21_NonEmptyAfterFullCopy ==
    [][\A n \in CpNames :
          (Persisted(n) /\ captured'[n][1].exit = "ok"
             /\ \E p \in Paths : ~RSYNC_EXCLUDES(p) /\ files[n[1]][p] # 0)
          => (backups'[n] # None /\ backups'[n][1] # EmptyTree)]_vars


\* The checkpoints (backup location or record) the running call has written.
Written == {n \in CpNames : metas[n] # pre.metas[n] \/ backups[n] # pre.backups[n]}

\* How often the running call executed a step.
Times(step) == Cardinality({i \in DOMAIN steps : steps[i].step = step})

\* C22: a sync call creates at most one checkpoint (one backup location and
\* one metadata record, under the same name), whatever the flags and
\* whichever step fails; with backup=false it creates none.
C22_AtMostOneCheckpoint ==
    InSync =>
        /\ Times("Checkpoint") <= 1
        /\ Cardinality(Written) <= 1
        /\ Cardinality({n \in CpNames : metas[n] # pre.metas[n]}) <= 1
        /\ checkpoint # None => Written = {checkpoint[1].backup_path}
        /\ \A n \in Written : n[1] = call.target
        /\ ~call.backup => (Written = {} /\ checkpoint = None /\ ~Ran("Checkpoint"))

C22_Witness ==
    /\ SyncReturned /\ call.backup
    /\ Met("Transfer", "fatal")
    /\ Cardinality(Written) = 1
    /\ call.verify /\ call.auto_commit /\ call.code_only


\* ------------------------------------------------------------ idempotence
\* A step of call c met no failure of its environment: git answered, the
\* backup transfer exited 0, and the transfer and the verification exited
\* non-fatally unless the command they run cannot succeed at all.
StepUnbroken(c, s) ==
    CASE s.step = "StructureScan" -> s.outcome = "scanned"
      [] s.step = "DirtyCheck" -> s.outcome = "clean"
      [] s.step = "Checkpoint" -> s.outcome = "ok"
      [] s.step = "Transfer" -> s.outcome = "ok" \/ BothRemote(c.source, c.target)
      [] s.step = "Verify" -> s.outcome # "fatal" \/ BothRemote(c.source, c.target)
      [] s.step = "AutoCommit" -> s.outcome \in {"clean", "committed"}
      [] OTHER -> TRUE

Unbroken(c, st) == \A i \in DOMAIN st : StepUnbroken(c, st[i])

\* The second of two successive runs of sync(E, E, strategy=safe) with
\* verification has returned; E was a clean repository for both dirty
\* checks and nothing of the environment failed in either run.
RanTwice ==
    /\ SyncReturned
    /\ prev # None
    /\ prev[1].call = call
    /\ call.source = call.target
    /\ call.strategy = "safe"
    /\ call.verify
    /\ raised = "none"
    /\ Unbroken(call, prev[1].steps) /\ Unbroken(call, steps)
    /\ \E i \in DOMAIN prev[1].steps :
          prev[1].steps[i] = [step |-> "DirtyCheck", outcome |-> "clean"]
    /\ Met("DirtyCheck", "clean")

Idempotent ==
    /\ prev[1].result # None /\ prev[1].result[1].success
    /\ Done
    /\ result[1].files_deleted = 0
    /\ result[1].files_synced = prev[1].result[1].files_synced
    /\ result[1].files_deleted = prev[1].result[1].files_deleted
    /\ result[1].verified

\* C23: for a clean version-controlled environment E, two successive runs
\* of sync(E, E, strategy=safe) both succeed, and the second run reports
\* files_deleted = 0, the same counts as the first run, and verified = true.
C23_Idempotence == RanTwice => Idempotent

\* The part of C23 that concerns an environment on the local machine.
C23_IdempotenceLocally == (RanTwice /\ ~is_remote(call.source)) => Idempotent

C23_LocallyWitness ==
    /\ RanTwice /\ ~is_remote(call.source)
    /\ call.backup
    /\ result[1].success /\ result[1].verified


\* ------------------------------------------------------------ the scanner
\* `scan` has returned a structure.
ScanReturned == op = "scan" /\ pc = "returned" /\ raised = "none"

\* The cache file the call found was usable: it held a structure and was
\* at most one hour old.
Fresh(found) == found.state = "entry" /\ found.age <= CACHE_TTL

\* The call scanned the environment and left its result in the cache.
Rescanned(e, run) ==
    /\ run.outcome = "scanned"
    /\ \E listed \in BOOLEAN : run.structure = _scan_directory(e, listed)
    /\ cache[e] = Entry(0, run.structure)

\* C24: scan(env, force=false) returns the cached structure only when a
\* cache entry for env exists whose age is at most the TTL of one hour,
\* and otherwise rescans and overwrites the entry; scan(env, force=true)
\* never returns a cached entry, it rescans and overwrites the entry.  No
\* entry older than the TTL is ever returned.
C24_ScanCache ==
    ScanReturned =>
        LET run == scanned.runs[1]
            e == scanned.env1
        IN /\ run.outcome = "cached" =>
                /\ ~scanned.force
                /\ Fresh(run.found)
                /\ run.structure = run.found.structure
                /\ cache[e] = run.found
           /\ (~scanned.force /\ ~Fresh(run.found)) => Rescanned(e, run)
           /\ scanned.force => Rescanned(e, run)

C24_Witness ==
    /\ ScanReturned
    /\ ~scanned.force
    /\ scanned.runs[1].found.state = "entry"
    /\ scanned.runs[1].found.age > CACHE_TTL
    /\ scanned.runs[1].outcome = "scanned"
    /\ scanned.runs[1].structure # scanned.runs[1].found.structure
    /\ cache[scanned.env1].age = 0

\* An entry that is exactly one hour old is still returned.
C24_BoundaryWitness ==
    /\ ScanReturned
    /\ scanned.runs[1].outcome = "cached"
    /\ scanned.runs[1].found.age = CACHE_TTL


\* ------------------------------------------------------------ termination
\* C25: every external command of a sync call is bounded by a timeout, a
\* timed-out command fails its step and is not retried, so every sync call
\* ends in Done or Failed even when a command never returns by itself.
C25_SyncTerminates == (op = "sync") ~> (pc = "returned")


\* ------------------------------------------------------ the transfer adapter
\* The steps of sync that run the transfer utility.
AdapterSteps == {"Checkpoint", "Transfer", "Verify"}

\* A fatal exit of the adapter in a step ended the call with an error.
FatalSurfaces(step) ==
    Met(step, "fatal") =>
        /\ pc = "returned"
        /\ failedAt = step
        /\ Failed
        /\ result[1].error # "none"

\* C26: in every operation that runs the transfer adapter an exit code of
\* 0 or 23 is a usable outcome, any other exit code is fatal to the
\* operation and surfaces as an error carrying the captured output, and the
\* adapter is run once per step, never retried.
C26_AdapterExits ==
    InSync =>
        /\ \A step \in AdapterSteps : FatalSurfaces(step)
        /\ \A step \in AdapterSteps : Times(step) <= 1
        /\ \A step \in {"Checkpoint", "Transfer"} :
              (Met(step, "ok") \/ Met(step, "partial")) => failedAt # step
        /\ (Met("Verify", "match") \/ Met("Verify", "mismatch")) => failedAt # "Verify"

\* The part of C26 that concerns checkpoint creation and Transfer.
C26_ExitsOutsideVerify ==
    InSync =>
        /\ \A step \in {"Checkpoint", "Transfer"} : FatalSurfaces(step)
        /\ \A step \in AdapterSteps : Times(step) <= 1
        /\ \A step \in {"Checkpoint", "Transfer"} :
              (Met(step, "ok") \/ Met(step, "partial")) => failedAt # step
        /\ (Met("Verify", "match") \/ Met("Verify", "mismatch")) => failedAt # "Verify"


\* ------------------------------------------------------------------- diff
\* `compare` has returned a report of a dry run that exited 0.
DiffReturned == op = "diff" /\ pc = "returned" /\ raised = "none"
FullDiff == DiffReturned /\ diffed.exit = "ok"

\* The files (outside the standard excludes) the source has and the target
\* lacks, those both have with other content, those only the target has.
AddedFiles(src, dst) == {p \in Paths : ~RSYNC_EXCLUDES(p) /\ src[p] # 0 /\ dst[p] = 0}
ModifiedFiles(src, dst) ==
    {p \in Paths : ~RSYNC_EXCLUDES(p) /\ src[p] # 0 /\ dst[p] # 0 /\ src[p] # dst[p]}
DeletedFiles(src, dst) == {p \in Paths : ~RSYNC_EXCLUDES(p) /\ src[p] = 0 /\ dst[p] # 0}

\* The counts are those of the added, modified and deleted files.
CountsOfFiles ==
    diffed.report[1].stats =
        <<Cardinality(AddedFiles(files[diffed.env1], files[diffed.env2])),
          Cardinality(ModifiedFiles(files[diffed.env1], files[diffed.env2])),
          Cardinality(DeletedFiles(files[diffed.env1], files[diffed.env2]))>>

\* has_diff and the report file agree with the counts.
ReportOfCounts ==
    LET r == diffed.report[1]
        file == reports[r.output_path][1]
        tags == <<"ADD", "MOD", "DEL">>
    IN /\ r.has_diff <=> (r.stats # <<0, 0, 0>>)
       /\ file.header = <<diffed.env1, diffed.env2>>
       /\ file.separator
       /\ \A i \in 1..3 :
            Cardinality({l \in file.lines : l[1] = tags[i]}) = r.stats[i]

\* C27: for a source with a added, m modified and d deleted files relative
\* to the target, diff returns the counts (a, m, d), (0, 0, 0) for
\* identical trees; has_diff is true iff a count is nonzero, and the report
\* holds the header, the separator and one ADD/MOD/DEL line per counted
\* change.
C27_DriftCounts == FullDiff => (CountsOfFiles /\ ReportOfCounts)

\* The part of C27 that concerns dry runs that itemize no directory.
C27_CountsWithoutDirectoryLines ==
    (FullDiff /\ \A l \in diffed.lines : l.path \notin Dirs) =>
        (CountsOfFiles /\ ReportOfCounts)

\* The part of C27 that concerns has_diff and the report file.
C27_ReportAgreesWithCounts == DiffReturned => ReportOfCounts

C27_WithoutDirectoryLinesWitness ==
    /\ FullDiff /\ \A l \in diffed.lines : l.path \notin Dirs
    /\ diffed.report[1].stats = <<1, 0, 0>>
    /\ diffed.report[1].has_diff


\* A step is a call of diff; a step is the Verify step of a sync call.
DiffStep == pc = "idle" /\ op' = "diff"
VerifyStep == pc = "verify" /\ pc' = "commit"

\* A step leaves the environments, the checkpoints and the scan cache alone.
ReadOnly ==
    /\ files' = files /\ repo' = repo /\ head' = head
    /\ backups' = backups /\ metas' = metas
    /\ cache' = cache

\* The report files a step wrote.
ReportsWritten == {n \in ReportNames : reports'[n] # reports[n]}

\* C28: diff and the Verify step are read-only with respect to the
\* environments: no file of either environment, no checkpoint and no
\* scan-cache entry is created, changed or deleted; diff writes exactly
\* one new report file, and only when the adapter run was usable.
C28_DiffAndVerifyReadOnly ==
    [][/\ VerifyStep => (ReadOnly /\ reports' = reports)
       /\ DiffStep =>
            /\ ReadOnly
            /\ IF raised' = "none"
               THEN \E n \in ReportNames :
                      /\ reports[n] = None /\ reports'[n] # None
                      /\ \A m \in ReportNames \ {n} : reports'[m] = reports[m]
               ELSE reports' = reports]_vars

\* The part of C28 that concerns everything but the newness of the report:
\* a usable diff writes the report named by the two environments and the
\* second, and nothing else.
C28_DiffReadOnly ==
    [][DiffStep =>
            /\ ReadOnly
            /\ IF raised' = "none"
               THEN /\ reports'[diffed'.report[1].output_path] # None
                    /\ ReportsWritten \subseteq {diffed'.report[1].output_path}
                    /\ diffed'.exit \in {"ok", "partial"}
               ELSE reports' = reports]_vars

\* The part of C28 that concerns the Verify step.
C28_VerifyReadOnly == [][VerifyStep => (ReadOnly /\ reports' = reports)]_vars


\* --------------------------------------------------- compare_structures
\* `compare_structures` has returned a comparison.
CompareReturned == op = "compare" /\ pc = "returned" /\ raised = "none"

\* The result is the set comparison of the two structures.
IsComparison(r, s1, s2) ==
    /\ r.types_match <=> (s1.types = s2.types)
    /\ r.code_dirs_match <=> (s1.all_code_dirs = s2.all_code_dirs)
    /\ r.types_in_1_only = s1.types \ s2.types
    /\ r.types_in_2_only = s2.types \ s1.types
    /\ r.code_only_in_1 = s1.all_code_dirs \ s2.all_code_dirs
    /\ r.code_only_in_2 = s2.all_code_dirs \ s1.all_code_dirs

\* C29: compareStructures is a pure comparison: it runs no command on
\* either environment and reads, writes or refreshes no scan-cache entry,
\* and its result depends only on the two structures (match flags and
\* asymmetric set differences).
C29_ComparePure ==
    CompareReturned =>
        /\ \A i \in DOMAIN scanned.runs :
              scanned.runs[i].outcome \notin {"cached", "scanned"}
        /\ \A e \in Envs : cache[e] \in Resolve(e, scanned.before[e])
        /\ IsComparison(scanned.compared[1],
                        scanned.runs[1].structure, scanned.runs[2].structure)

\* The part of C29 that concerns the result: it is the set comparison of
\* the structures the two scans returned.
C29_ResultIsSetComparison ==
    CompareReturned =>
        IsComparison(scanned.compared[1],
                     scanned.runs[1].structure, scanned.runs[2].structure)

\* The comparison itself, over every pair of structures with at most two
\* kinds and two code dirs.
C29_CompareOfAnyStructures ==
    \A t1, t2 \in SUBSET Kinds, c1, c2 \in SUBSET {"src", "lib"} :
        IsComparison(compare(ProjectStructure("dev", t1, c1, {}),
                             ProjectStructure("dev-2", t2, c2, {})),
                     ProjectStructure("dev", t1, c1, {}),
                     ProjectStructure("dev-2", t2, c2, {}))

C29_ResultWitness ==
    /\ CompareReturned
    /\ scanned.env1 # scanned.env2
    /\ ~scanned.compared[1].types_match
    /\ scanned.runs[1].outcome = "cached"
    /\ scanned.runs[2].outcome = "scanned"


\* ------------------------------------------------------ component filter
\* The files of e that belong to its components of kind k: the one
\* component is the root, so every file belongs to it.
OfKind(e, k) == IF k = RootKind(e) THEN Paths ELSE {}

\* A sync call with code_only and a non-empty component filter.
Filtered == op = "sync" /\ call.code_only /\ call.components # None
            /\ call.components[1] # {}

\* C30: with code_only and a non-empty component filter only the
\* components whose kind is in the filter are synced: no file of a scanned
\* component of another kind is transferred to, or deleted from, the target.
C30_OnlyFilteredComponents ==
    (Filtered /\ call.target \in Envs) =>
        \A k \in src_structure \ call.components[1] :
            \A p \in OfKind(call.source, k) :
                files[call.target][p] = pre.files[p]

\* What the filter does narrow: the component kinds the result reports.
C30_ReportedComponentsFiltered ==
    (Filtered /\ Done) =>
        /\ \A i \in DOMAIN result[1].components_synced :
              /\ result[1].components_synced[i] \in call.components[1]
              /\ result[1].components_synced[i] \in src_structure
        /\ \A k \in src_structure \cap call.components[1] :
              \E i \in DOMAIN result[1].components_synced :
                  result[1].components_synced[i] = k

C30_ReportedWitness ==
    /\ Filtered /\ Done
    /\ src_structure = {"python"}
    /\ result[1].components_synced = <<>>
    /\ result[1].files_synced > 0


\* ------------------------------------------------------------ the config
\* The token the config file holds, if it holds one.
StoredToken == cfgfile.gitlab[1]
Saved == cfgfile.written_by = "save" /\ cfgfile.gitlab # None

\* C31: after any sequence of load, set-env, set-gitlab and save with the
\* default encrypt=true the token in the config file is ciphertext with
\* the versioned prefix, never the plain token, and every load returns the
\* plain token.
C31_TokenStoredEncrypted ==
    /\ Saved => (StoredToken.prefix /\ StoredToken.sealed)
    /\ (cfgop.name = "load" /\ cfgfile.written_by = "save") =>
          /\ cfgop.raised = "none"
          /\ cfgfile.gitlab # None => cfgop.token = Some(Plain(StoredToken.text))

\* What does hold: a configuration whose token was set in this process, or
\* loaded from plain text, is saved with the token encrypted, and a load of
\* an encrypted token returns the plain token.
C31_FreshTokenStoredEncrypted ==
    /\ (cfgop.name = "save" /\ Saved /\ ~cfg[1].gitlab[1].encrypted) =>
          (StoredToken.prefix /\ StoredToken.sealed)
    /\ (cfgop.name = "load" /\ cfgfile.gitlab # None /\ StoredToken.sealed) =>
          (cfgop.raised = "none" /\ cfgop.token = Some(Plain(StoredToken.text)))

C31_FreshWitness ==
    /\ cfgop.name = "load"
    /\ Saved /\ StoredToken = Str(TRUE, TRUE, "glpat-1")
    /\ cfgop.token = Some(Plain("glpat-1"))


\* --------------------------------------------------- the walk of a tree
\* The directories of a tree with their paths below the root.
RECURSIVE Nodes(_, _)
Nodes(dir, rel) ==
    {[path |-> rel, dir |-> dir]}
    \cup UNION {Nodes(dir.subs[i], Append(rel, dir.subs[i].name)) : i \in DOMAIN dir.subs}

Walk == walked.structure
Walked == walked # NoWalk
TreeNodes == Nodes(walked.tree, <<>>)
Visited(n) == n.path \in Walk.visited
ComponentsAt(p) == {i \in DOMAIN Walk.components : Walk.components[i].path = p}
Beneath(p, q) == Len(q) > Len(p) /\ SubSeq(q, 1, Len(p)) = p
Rank(kind) == CHOOSE i \in DOMAIN PROJECT_MARKERS : PROJECT_MARKERS[i] = kind

Children(n) ==
    {[path |-> Append(n.path, n.dir.subs[i].name), dir |-> n.dir.subs[i]] :
        i \in DOMAIN n.dir.subs}
DenyListed(c) == _is_non_code_dir(c.dir.name)
RecordedNonCode(c) == c.path \in Walk.all_non_code_dirs
RecursedInto(c) == c.path \in Walk.visited
Plainly(n) == Visited(n) /\ n.dir.markers = {}

\* Exactly one of the two ways: recorded as non-code and left alone, or
\* scanned in turn.
HandledOneWay(c) ==
    IF DenyListed(c) THEN RecordedNonCode(c) /\ ~RecursedInto(c)
    ELSE RecursedInto(c) /\ ~RecordedNonCode(c)

\* C33: every subdirectory, at depth <= 5, of a visited directory that is no
\* component is handled in exactly one of two ways, however many siblings
\* it has: deny-listed (exact name, suffix pattern or hidden) it is recorded
\* in the non-code set and not recursed into, otherwise it is recursed into;
\* and a directory holding go.mod (and no marker of python or node) is a go
\* component that is not recursed into.
C33_EverySubdirectoryHandled ==
    /\ \A n \in TreeNodes :
          Plainly(n) =>
             \A c \in Children(n) : Len(c.path) <= MAX_DEPTH => HandledOneWay(c)
    /\ \A n \in TreeNodes :
          (Visited(n) /\ "go" \in n.dir.markers /\ n.dir.markers \cap {"python", "node"} = {}) =>
             /\ \E i \in ComponentsAt(n.path) : Walk.components[i].type = "go"
             /\ \A c \in Children(n) : ~RecursedInto(c)

\* The lines of the listing that _scan_directory goes through.
GoneThrough(n) ==
    LET lines == TailLines(FindSubdirs(n.dir, n.path), TAIL_LINES)
    IN {[path |-> lines[i].path, dir |-> lines[i].dir] :
           i \in {j \in DOMAIN lines : ~lines[j].self}}

\* What does hold: the subdirectories among the last 20 lines of the
\* listing, which leaves out hidden names, are handled in exactly one of
\* the two ways, and the others in neither.
C33_ListedSubdirectoryHandled ==
    /\ \A n \in TreeNodes :
          Plainly(n) =>
             \A c \in Children(n) :
                Len(c.path) <= MAX_DEPTH =>
                   IF c \in GoneThrough(n) THEN HandledOneWay(c)
                   ELSE ~RecordedNonCode(c) /\ ~RecursedInto(c)
    /\ \A n \in TreeNodes :
          (Visited(n) /\ "go" \in n.dir.markers /\ n.dir.markers \cap {"python", "node"} = {}) =>
             /\ \E i \in ComponentsAt(n.path) : Walk.components[i].type = "go"
             /\ \A c \in Children(n) : ~RecursedInto(c)

C33_ListedWitness ==
    /\ Walked
    /\ \E n \in TreeNodes :
          /\ Plainly(n)
          /\ Len(n.dir.subs) > TAIL_LINES
          /\ \E c \in Children(n) : c \in GoneThrough(n) /\ DenyListed(c) /\ RecordedNonCode(c)
          /\ \E c \in Children(n) : c \notin GoneThrough(n) /\ ~DenyListed(c) /\ ~RecursedInto(c)
    /\ \E n \in TreeNodes : Plainly(n) /\ Len(n.path) = MAX_DEPTH


\* ------------------------------------------------- the status query
\* Under strategy=safe the call has gone past the dirty check.
PastDirtyCheck == InSync /\ call.strategy = "safe" /\ (Ran("Checkpoint") \/ Ran("Transfer"))

\* C34: under strategy=safe Checkpoint and Transfer start only after a
\* status query of the target that succeeded and reported a clean tree, or
\* that established that the target is not under version control; a query
\* that could not be completed is never treated as clean.
C34_TransferOnlyAfterCleanStatus ==
    PastDirtyCheck =>
        \/ Met("DirtyCheck", "clean")
        \/ Met("DirtyCheck", "RuntimeError:not_a_repo")

\* What does hold: the call goes on after a clean status, and after a
\* query ended by an exception that is no RuntimeError (an SSH or socket
\* error); a failing git command, a dirty tree, an unknown host key and a
\* path that is no repository all end the call.
C34_TransferAfterCleanOrSkippedStatus ==
    PastDirtyCheck =>
        \/ Met("DirtyCheck", "clean")
        \/ Met("DirtyCheck", "SSHException")

C34_SkippedWitness ==
    /\ PastDirtyCheck
    /\ Met("DirtyCheck", "SSHException")
    /\ Met("Transfer", "ok")
    /\ files[call.target] # pre.files


\* ------------------------------------------------------ the auto-commit
\* A successful sync with auto_commit on a version-controlled target.
AutoCommitted ==
    SyncReturned /\ Done /\ call.auto_commit /\ call.target \in Envs /\ repo[call.target]

\* C35: after a sync that returns success=true with auto_commit=true on a
\* version-controlled target the target's working tree is clean, so that a
\* following sync with strategy=safe passes the dirty check.
C35_CleanAfterAutoCommit ==
    AutoCommitted =>
        /\ ~dirty(call.target)
        /\ ~_check_clean_target(call.target, "none").raises

\* What does hold: the tree is clean when the status query found it clean
\* or the commit went through.
C35_CleanWhenCommitted ==
    (AutoCommitted /\ (Met("AutoCommit", "clean") \/ Met("AutoCommit", "committed"))) =>
        /\ ~dirty(call.target)
        /\ ~_check_clean_target(call.target, "none").raises

C35_CommittedWitness ==
    /\ AutoCommitted
    /\ Met("AutoCommit", "committed")
    /\ Met("Transfer", "ok")
    /\ files[call.target] # pre.files


\* ------------------------------------------------------ the verification
\* Transfer ended with exit code 0 and the dry run of Verify was usable.
TransferredAndVerified ==
    InSync /\ Met("Transfer", "ok") /\ Ran("Verify") /\ ~Met("Verify", "fatal")

\* C36: if Transfer ends with the full-success exit code and nobody changes
\* source or target before Verify, Verify reports verified=true, under
\* both strategies and with or without the excludes of code_only.
C36_VerifiedAfterFullTransfer == TransferredAndVerified => verified

\* What does hold: after a full transfer that compared by checksum
\* (strategy=safe) the verification passes, with and without code_only.
C36_VerifiedAfterChecksumTransfer ==
    (TransferredAndVerified /\ call.strategy = "safe") => verified

C36_ChecksumWitness ==
    /\ TransferredAndVerified /\ call.strategy = "safe" /\ verified
    /\ call.code_only /\ extra_excludes # {}
    /\ \E p \in Paths : pre.files[p] = Twin /\ files[call.target][p] = 1


\* --------------------------------------------------------------- orphans
\* No checkpoint operation is under way.
Completed == pc \in {"idle", "returned"}
HasBackup(n) == backups[n] # None
HasRecord(n) == metas[n] # None

\* C37: after any sequence of completed checkpoint operations the storage
\* has no orphan: every backup location has a metadata record referencing
\* it and every record's backup location exists; a creation that fails
\* leaves neither behind.
C37_NoOrphans ==
    Completed =>
        \A n \in CpNames :
            /\ HasBackup(n) <=> HasRecord(n)
            /\ HasRecord(n) => metas[n][1].backup_path = n

\* What does hold as long as no cleanup runs: every record references its
\* own backup location, and that location exists.
C37_RecordsHaveBackups ==
    Completed =>
        \A n \in CpNames :
            HasRecord(n) => (HasBackup(n) /\ metas[n][1].backup_path = n)

C37_RecordsWitness ==
    /\ Completed /\ op = "create" /\ raised # "none"
    /\ \E n \in CpNames : HasRecord(n) /\ HasBackup(n)
    /\ \E n \in CpNames : HasBackup(n) /\ ~HasRecord(n)


\* ------------------------------------------------ rollback during cleanup
\* The records the running cleanup removes.
BeingRemoved ==
    {cleaning.listed[i] : i \in (cleaning.keep + 1)..Len(cleaning.listed)}

\* A second process rolled back to one of its target's own checkpoints
\* while the cleanup that removes this checkpoint was under way; the
\* restore transfer exited 0 and no hard reset changed the files afterwards.
RolledBackDuringCleanup ==
    /\ op = "cleanup" /\ pc \in {"cleanup", "returned"}
    /\ rb # "none" /\ raised = "none"
    /\ checkpoint # None
    /\ checkpoint[1] \in BeingRemoved
    /\ checkpoint[1].env_name = call.target
    /\ Met("Restore", "ok") /\ ~Met("Reset", "ok")

\* The environment after a restore from the whole backup, as the cleanup
\* found it.
FullyRestored ==
    RsyncApply(pre.backups[checkpoint[1].backup_path][1], pre.files, Paths, {}, TRUE)

\* C38: a rollback that runs concurrently with the cleanup that removes
\* its checkpoint either returns False with the environment's files
\* unchanged or returns True with the environment restored to the full
\* captured content; it never returns True after deleting or overwriting
\* files from a partially removed backup.
C38_RollbackAllOrNothing ==
    RolledBackDuringCleanup =>
        \/ rb = "False" /\ files[call.target] = pre.files
        \/ rb = "True" /\ files[call.target] = FullyRestored

\* What holds: a rollback that starts before the cleanup has touched the
\* checkpoint's backup restores the whole of it.
C38_FullWhenBackupUntouched ==
    (RolledBackDuringCleanup /\ checkpoint[1] \in Range(cleaning.todo)
        /\ backups[checkpoint[1].backup_path] = pre.backups[checkpoint[1].backup_path]) =>
        (rb = "True" /\ files[call.target] = FullyRestored)

C38_UntouchedWitness ==
    /\ RolledBackDuringCleanup /\ checkpoint[1] \in Range(cleaning.todo)
    /\ backups[checkpoint[1].backup_path] = pre.backups[checkpoint[1].backup_path]
    /\ files[call.target] # pre.files


\* ------------------------------------------------ scans that find nothing
\* The scanner call is over.
ScannerReturned == op \in {"scan", "compare"} /\ pc = "returned"

\* A run of scan that went to the environment and could not list its root:
\* _scan_directory returned at once and the structure stayed empty.
ListingFailed(run) ==
    run.outcome = "scanned" /\ run.structure = EmptyStructure(run.env)

\* The cache file of the run's environment after the run is the one it
\* found.
WroteNoEntry(c, run) == c[run.env] = run.found

\* C39: a scan whose listing of the root directory fails writes no cache
\* entry, so a later scan(env, force=false) never receives an empty
\* structure produced by a failed scan.
C39_FailedListingWritesNoCache ==
    ScannerReturned =>
        /\ \A i \in DOMAIN scanned.runs :
             (i = Len(scanned.runs) /\ ListingFailed(scanned.runs[i])) =>
                 WroteNoEntry(cache, scanned.runs[i])
        /\ (Len(scanned.runs) = 2 /\ scanned.env1 = scanned.env2
                /\ ListingFailed(scanned.runs[1])) =>
               ~(scanned.runs[2].outcome = "cached"
                   /\ scanned.runs[2].structure = EmptyStructure(scanned.env2))

\* What holds: a scan that ends with an exception (the environment is not
\* configured, the remote host cannot be reached) writes no cache entry.
C39_RaisingScanWritesNoCache ==
    ScannerReturned =>
        \A i \in DOMAIN scanned.runs :
            (i = Len(scanned.runs) /\ ScanRaised(scanned.runs[i])
                /\ scanned.runs[i].env \in Envs) =>
                WroteNoEntry(cache, scanned.runs[i])

C39_RaisingWitness ==
    /\ ScannerReturned
    /\ Len(scanned.runs) = 1
    /\ scanned.runs[1].outcome = "SSHException"
    /\ WroteNoEntry(cache, scanned.runs[1])
    /\ scanned.runs[1].found.state = "entry"


\* ------------------------------------------------------ root_path of a scan
\* C40: every structure returned by scan(env) has the root_path that is
\* configured for env at the time of the call, also when the path was
\* changed with set-env after the cache entry was written and the entry is
\* younger than the TTL.
C40_RootPathAsConfigured ==
    ScannerReturned =>
        \A i \in DOMAIN scanned.runs :
            rooted.returned[i] # None =>
                rooted.returned[i][1] = rooted.configured[scanned.runs[i].env]

\* What holds: a structure that scan built from the environment, because
\* of force, a missing, unreadable or expired cache file, has the
\* configured path.
C40_RootPathOfFreshScan ==
    ScannerReturned =>
        \A i \in DOMAIN scanned.runs :
            scanned.runs[i].outcome = "scanned" =>
                /\ rooted.returned[i] = Some(rooted.configured[scanned.runs[i].env])
                /\ rooted.stored[scanned.runs[i].env]
                       = rooted.configured[scanned.runs[i].env]

C40_FreshWitness ==
    /\ ScannerReturned
    /\ scanned.runs[1].outcome = "scanned"
    /\ scanned.runs[1].found.state = "entry"
    /\ rooted.configured[scanned.runs[1].env] # DefaultConfig.path[scanned.runs[1].env]
    /\ rooted.returned[1] = Some(rooted.configured[scanned.runs[1].env])


====
